---------------------------- MODULE Spec2Model ----------------------------
(***************************************************************************)
(* globalWatch: the record pipeline of src/src/lib/api.ts, its earlier     *)
(* revisions, and the two client components that show its results.         *)
(*                                                                         *)
(*   normalizeFBIItem       raw record -> WantedPerson (image resolution,  *)
(*                          classification cascade, charges / description) *)
(*   fetchJson              one HTTP request, failures mapped to null      *)
(*   getAllFBIWantedData    the paginated fetch loop                       *)
(*   getFBIPersonDetails    the lookup by id, object endpoint then scan    *)
(*   normalizeInterpolItem  Interpol notice -> CombinedWantedPerson        *)
(*   getPrimaryImageUrl     the image a consumer shows for a person        *)
(*   getCombinedWantedList  the two list fetches, joined and sorted        *)
(*   WantedCard             the badge of a card                            *)
(*   AgeProgressionClient   the upload form of the age progression tool    *)
(*                                                                         *)
(* Strings are TLA+ strings; Len, SubSeq and \o act on them character by   *)
(* character.  A nullable or optional field is a sequence of length 0      *)
(* (null / undefined) or 1 (the value).                                    *)
(***************************************************************************)
EXTENDS Integers, Sequences, FiniteSets, TLC

(***************************************************************************)
(* State                                                                   *)
(***************************************************************************)
VARIABLES
    \* one call of normalizeFBIItem
    item,              \* the raw record (the argument)
    step,              \* the statement of normalizeFBIItem to run next
    classification,    \* the local `classification`
    person,            \* the returned WantedPerson, None until the return
    \* one call of getAllFBIWantedData
    source,            \* the FBI API as this call meets it
    itemsPerPage,      \* the argument
    pc,                \* the statement of getAllFBIWantedData to run next
    i,                 \* the loop counter
    currentPage,
    apiReportedTotalItems,
    successfullyFetchedItems,
    allNormalizedPersons,
    response,          \* what `await fetchSingleFBIPage(...)` gave, None for null
    requests,          \* the page numbers requested so far, in order
    result,            \* the resolved value of the call, None until it resolves
    \* one call of getFBIPersonDetails
    lookupId,          \* the argument `id`
    directAnswer,      \* how the object endpoint answers the request for `id`
    directRequests,    \* the number of requests sent to the object endpoint
    directItem,        \* what `await fetchJson(directUrl, ...)` gave, None for null
    details,           \* the resolved value of the call, None for null
    \* one call of normalizeInterpolItem
    notice,                  \* the argument `item`
    detailedImagesFromApi,   \* the optional second argument, None for undefined
    istep,                   \* the statement of normalizeInterpolItem to run next
    primaryImageForDisplay,  \* None for undefined
    allImagesForGallery,
    combinedPerson,          \* the returned CombinedWantedPerson, None until the return
    \* one person on display
    shown,             \* the WantedPerson handed to the getter or to the card
    primaryUrl,        \* what getPrimaryImageUrl returned, None before the call
    badge,             \* the text of the card's badge, None before the render
    \* one call of getCombinedWantedList
    pageSize,          \* the argument
    fbiAnswer,         \* how the FBI API answers the list request
    interpolAnswer,    \* how the Interpol API answers the list request
    fbiFetch,          \* fbiItemsPromise: "none", "pending", "resolved", "rejected"
    interpolFetch,     \* interpolItemsPromise, likewise
    fbiItems,          \* the value fbiItemsPromise resolved with
    interpolItems,     \* the value interpolItemsPromise resolved with
    cpc,               \* the statement of getCombinedWantedList to run next
    combinedList,      \* the resolved value of the call
    \* one mounted AgeProgressionClient
    photoDataUri,      \* state: the uploaded photo, None for null
    originalImageUrl,  \* state: the preview of the uploaded photo
    isLoading,         \* state
    ageError,          \* state `error`, None for null
    ageResult,         \* state `result`: the photo the shown output was made from
    reading,           \* the files whose FileReader has not finished
    inFlight,          \* the photo of the ageProgression call awaited, None for none
    selections         \* the number of files chosen so far

normVars == <<item, step, classification, person>>
fetchVars == <<source, itemsPerPage, pc, i, currentPage, apiReportedTotalItems,
               successfullyFetchedItems, allNormalizedPersons, response, requests,
               result>>

detailVars == <<lookupId, directAnswer, directRequests, directItem, details>>
interpolVars == <<notice, detailedImagesFromApi, istep, primaryImageForDisplay,
                  allImagesForGallery, combinedPerson>>
viewVars == <<shown, primaryUrl, badge>>
combinedVars == <<pageSize, fbiAnswer, interpolAnswer, fbiFetch, interpolFetch, fbiItems,
                  interpolItems, cpc, combinedList>>
ageVars == <<photoDataUri, originalImageUrl, isLoading, ageError, ageResult, reading,
             inFlight, selections>>
moreVars == <<viewVars, combinedVars, ageVars>>
restVars == <<detailVars, interpolVars, moreVars>>

vars == <<normVars, fetchVars, restVars>>

(***************************************************************************)
(* Optional values                                                         *)
(***************************************************************************)
None == <<>>
Some(v) == <<v>>

\* `x || ""` on a nullable string: null, undefined and "" all give "".
Str(o) == IF o = None THEN "" ELSE o[1]

\* Mutant: ?? in place of ||, the empty string counts as a value.
Truthy_Nullish(o) == o # None

\* JavaScript truthiness of a nullable string.
Truthy(o) == Str(o) # ""

\* a || b || ... over nullable strings, ending in a default string.
RECURSIVE FirstTruthy(_, _)
FirstTruthy(opts, dflt) ==
    IF opts = <<>> THEN dflt
    ELSE IF Truthy(Head(opts)) THEN Str(Head(opts))
    ELSE FirstTruthy(Tail(opts), dflt)

(***************************************************************************)
(* String primitives                                                       *)
(***************************************************************************)
CharAt(s, at) == SubSeq(s, at, at)

UpperLetters == "ABCDEFGHIJKLMNOPQRSTUVWXYZ"
LowerLetters == "abcdefghijklmnopqrstuvwxyz"
Digits == "0123456789"

\* String.prototype.includes
Includes(s, k) ==
    \E at \in 1..(Len(s) - Len(k) + 1) : SubSeq(s, at, at + Len(k) - 1) = k

CharsOf(s) == {CharAt(s, at) : at \in 1..Len(s)}
UpperSet == CharsOf(UpperLetters)
LowerSet == CharsOf(LowerLetters)
DigitSet == CharsOf(Digits)
LowerOf == [c \in UpperSet |->
              CharAt(LowerLetters, CHOOSE at \in 1..26 : CharAt(UpperLetters, at) = c)]

IsUpper(c) == c \in UpperSet
IsLower(c) == c \in LowerSet
IsDigit(c) == c \in DigitSet
IsLetter(c) == IsUpper(c) \/ IsLower(c)
\* the regular-expression class \w
IsWordChar(c) == IsLetter(c) \/ IsDigit(c) \/ c = "_"

LowerChar(c) == IF IsUpper(c) THEN LowerOf[c] ELSE c

\* String.prototype.toLowerCase (ASCII)
RECURSIVE ToLowerCase(_)
ToLowerCase(s) ==
    IF s = "" THEN ""
    ELSE LowerChar(CharAt(s, 1)) \o ToLowerCase(SubSeq(s, 2, Len(s)))

\* String.prototype.trim (the only white space of the modelled alphabet is " ")
RECURSIVE TrimLeft(_)
TrimLeft(s) ==
    IF s # "" /\ CharAt(s, 1) = " " THEN TrimLeft(SubSeq(s, 2, Len(s))) ELSE s
RECURSIVE TrimRight(_)
TrimRight(s) ==
    IF s # "" /\ CharAt(s, Len(s)) = " " THEN TrimRight(SubSeq(s, 1, Len(s) - 1)) ELSE s
Trim(s) == TrimRight(TrimLeft(s))

\* Array.prototype.join
RECURSIVE Join(_, _)
Join(list, sep) ==
    IF list = <<>> THEN ""
    ELSE IF Len(list) = 1 THEN list[1]
    ELSE list[1] \o sep \o Join(Tail(list), sep)

\* Array.prototype.includes / some / every / filter over a list of strings
ListIncludes(list, x) == \E at \in 1..Len(list) : list[at] = x
SomeIncludes(list, k) == \E at \in 1..Len(list) : Includes(list[at], k)
MapLower(list) == [at \in 1..Len(list) |-> ToLowerCase(list[at])]

\* Array.from(new Set(list)): first occurrences, in order
RECURSIVE Unique(_)
Unique(list) ==
    IF list = <<>> THEN <<>>
    ELSE LET init == Unique(SubSeq(list, 1, Len(list) - 1))
             last == list[Len(list)]
         IN IF ListIncludes(init, last) THEN init ELSE Append(init, last)

\* encodeURIComponent over printable ASCII (the grave accent excepted, which a
\* TLA+ string cannot hold): letters, digits and the marks below are kept,
\* every other character becomes %XX.
UnreservedMarks == "-_.!~*'()"
EscapedChars == " \"#$%&+,/:;<=>?@[\\]^{|}"
EscapeCodes == <<"%20", "%22", "%23", "%24", "%25", "%26", "%2B", "%2C", "%2F",
                 "%3A", "%3B", "%3C", "%3D", "%3E", "%3F", "%40", "%5B", "%5C",
                 "%5D", "%5E", "%7B", "%7C", "%7D">>
EncodeChar(c) ==
    IF IsLetter(c) \/ IsDigit(c) \/ Includes(UnreservedMarks, c) THEN c
    ELSE EscapeCodes[CHOOSE at \in 1..Len(EscapedChars) : CharAt(EscapedChars, at) = c]
RECURSIVE encodeURIComponent(_)
encodeURIComponent(s) ==
    IF s = "" THEN ""
    ELSE EncodeChar(CharAt(s, 1)) \o encodeURIComponent(SubSeq(s, 2, Len(s)))

\* Number.prototype.toString for a natural number
RECURSIVE IntToStr(_)
IntToStr(n) ==
    IF n < 10 THEN CharAt(Digits, n + 1)
    ELSE IntToStr(n \div 10) \o CharAt(Digits, (n % 10) + 1)

\* Mutant: the metric value is cut after two decimals instead of rounded.
MetresFixed2_Truncated(inches) ==
    LET cm == (inches * 254) \div 100
    IN IntToStr(cm \div 100) \o "." \o IntToStr((cm % 100) \div 10) \o IntToStr(cm % 10)

\* (inches * 0.0254).toFixed(2).  toFixed rounds the exact value of the double
\* inches * 0.0254 to the nearest hundredth; for whole inches below 125 that is
\* inches * 2.54 rounded half up (125 is the first value where the double
\* falls below the .5 tie), so the model keeps heights below 125.
MetresFixed2(inches) ==
    LET cm == (inches * 254 + 50) \div 100
    IN IntToStr(cm \div 100) \o "." \o IntToStr((cm % 100) \div 10) \o IntToStr(cm % 10)

(***************************************************************************)
(* The two regular expressions of normalizeFBIItem                         *)
(*   /\b(?:January|...|December)\b|\d{4}|,/                                *)
(*   /^[A-Za-z\s]+, [A-Za-z\s]+ \w+ \d{4}$/                                *)
(***************************************************************************)
MonthNames == {"January", "February", "March", "April", "May", "June", "July",
               "August", "September", "October", "November", "December"}

HasMonthWord(s) ==
    \E m \in MonthNames : \E at \in 1..(Len(s) - Len(m) + 1) :
        /\ SubSeq(s, at, at + Len(m) - 1) = m
        /\ (at = 1 \/ ~IsWordChar(CharAt(s, at - 1)))
        /\ (at + Len(m) - 1 = Len(s) \/ ~IsWordChar(CharAt(s, at + Len(m))))

HasFourDigits(s) ==
    \E at \in 1..(Len(s) - 3) : \A j \in at..(at + 3) : IsDigit(CharAt(s, j))

MatchesDateOrComma(s) == HasMonthWord(s) \/ HasFourDigits(s) \/ Includes(s, ",")

IsLetterOrSpace(c) == IsLetter(c) \/ c = " "
AllChars(s, from, to, P(_)) == \A n \in from..to : P(CharAt(s, n))

MatchesPlaceAndDate(s) ==
    LET k == Len(s) - 4   \* the blank before the closing four digits
    IN /\ k >= 6
       /\ CharAt(s, k) = " " /\ AllChars(s, k + 1, k + 4, IsDigit)
       /\ \E at \in 2..(k - 4) :
             /\ SubSeq(s, at, at + 1) = ", "
             /\ AllChars(s, 1, at - 1, IsLetterOrSpace)
             /\ \E j \in (at + 3)..(k - 2) :
                   /\ CharAt(s, j) = " "
                   /\ AllChars(s, at + 2, j - 1, IsLetterOrSpace)
                   /\ AllChars(s, j + 1, k - 1, IsWordChar)

\* s.match(<first>) || <second>.test(s)
LooksLikeDateOrPlace(s) == MatchesDateOrComma(s) \/ MatchesPlaceAndDate(s)

(***************************************************************************)
(* normalizeFBIItem: image resolution                                      *)
(*                                                                         *)
(* An image entry is [large, original, thumb]; "" stands for every falsy   *)
(* tier value (absent, null, ""), which filter(Boolean) drops alike.       *)
(***************************************************************************)
NonEmpty(u) == u # ""

fbiImageObjects(raw) == IF raw.images = None THEN <<>> ELSE raw.images[1]

Tier(imgs, t) == SelectSeq([n \in 1..Len(imgs) |-> imgs[n][t]], NonEmpty)

\* Mutant: the thumbnail fallback reads the first image entry only.
prioritizedImages_FirstEntryThumb(raw) ==
    LET imgs == fbiImageObjects(raw)
        base == Tier(imgs, "large") \o Tier(imgs, "original")
    IN IF base = <<>> /\ imgs # <<>> /\ imgs[1].thumb # ""
       THEN <<imgs[1].thumb>> ELSE base

prioritizedImages(raw) ==
    LET imgs == fbiImageObjects(raw)
        base == Tier(imgs, "large") \o Tier(imgs, "original")
        thumbs == Tier(imgs, "thumb")
    IN IF base = <<>> /\ thumbs # <<>> THEN <<thumbs[1]>> ELSE base

\* Mutant: the list is returned without the pass through a Set.
uniqueImages_NoDedupe(raw) == prioritizedImages(raw)

uniqueImages(raw) == Unique(prioritizedImages(raw))

PlaceholderUrl(raw) ==
    "https://placehold.co/300x400.png?text="
        \o encodeURIComponent(FirstTruthy(<<raw.title>>, "No Image"))

primaryDisplayImage(raw) ==
    IF uniqueImages(raw) # <<>> THEN uniqueImages(raw)[1] ELSE PlaceholderUrl(raw)

(***************************************************************************)
(* normalizeFBIItem: height                                                *)
(***************************************************************************)
\* `item.height_x && item.height_x > 0` on a nullable number
PositiveNum(o) == o # None /\ o[1] > 0

\* Mutant: the imperial part is left out.
FeetInches_Omitted(h) == ""

FeetInches(h) == IntToStr(h \div 12) \o "'" \o IntToStr(h % 12) \o "\""

\* Mutant: a maximum is formatted only when there is no minimum.
heightStr_LoneMaximum(raw) ==
    IF /\ PositiveNum(raw.height_max) /\ PositiveNum(raw.height_min)
       /\ raw.height_min = raw.height_max
    THEN Some(FeetInches(raw.height_max[1]) \o " ("
                \o MetresFixed2(raw.height_max[1]) \o "m)")
    ELSE IF PositiveNum(raw.height_max) /\ ~PositiveNum(raw.height_min)
    THEN Some(MetresFixed2(raw.height_max[1]) \o "m (max)")
    ELSE IF PositiveNum(raw.height_min) /\ ~PositiveNum(raw.height_max)
    THEN Some("At least " \o FeetInches(raw.height_min[1]) \o " ("
                \o MetresFixed2(raw.height_min[1]) \o "m)")
    ELSE None

heightStr(raw) ==
    IF /\ PositiveNum(raw.height_max) /\ PositiveNum(raw.height_min)
       /\ raw.height_min = raw.height_max
    THEN Some(FeetInches(raw.height_max[1]) \o " ("
                \o MetresFixed2(raw.height_max[1]) \o "m)")
    ELSE IF PositiveNum(raw.height_max)
    THEN Some(MetresFixed2(raw.height_max[1]) \o "m (max)")
    ELSE IF PositiveNum(raw.height_min)
    THEN Some("At least " \o FeetInches(raw.height_min[1]) \o " ("
                \o MetresFixed2(raw.height_min[1]) \o "m)")
    ELSE None

(***************************************************************************)
(* normalizeFBIItem: the classification cascade                            *)
(***************************************************************************)
PersonClassification ==
    {"WANTED_CRIMINAL", "CYBER_MOST_WANTED", "CRIMES_AGAINST_CHILDREN",
     "MISSING_PERSON", "UNIDENTIFIED_PERSON", "VICTIM_OF_CRIME",
     "SEEKING_INFORMATION", "CAPTURED", "UNSPECIFIED"}

\* `x?.toLowerCase()` compared with a non-empty literal, and
\* `x?.toLowerCase() || ""`: null and undefined behave like "".
statusLower(raw) == ToLowerCase(Str(raw.status))
posterClassLower(raw) == ToLowerCase(Str(raw.poster_classification))
personClassLower(raw) == ToLowerCase(Str(raw.person_classification))
subjectsOf(raw) == IF raw.subjects = None THEN <<>> ELSE raw.subjects[1]
subjectsLower(raw) == MapLower(subjectsOf(raw))
titleLower(raw) == ToLowerCase(Str(raw.title))
detailsLower(raw) == ToLowerCase(Str(raw.details))
descriptionLower(raw) == ToLowerCase(Str(raw.description))
remarksLower(raw) == ToLowerCase(Str(raw.remarks))
combinedTextLower(raw) ==
    descriptionLower(raw) \o " " \o detailsLower(raw) \o " " \o remarksLower(raw)

\* Mutant: the keyword stages run whatever the classification is.
IsGeneric_Always(c) == TRUE

\* classification === 'WANTED_CRIMINAL' || classification === 'UNSPECIFIED'
IsGeneric(c) == c \in {"WANTED_CRIMINAL", "UNSPECIFIED"}

\* Mutant: the title is tested for 'unidentified' alone.
TitleSaysUnidentified_NoDoe(raw) == Includes(titleLower(raw), "unidentified")

\* titleLower.includes('unidentified') || ...('jane doe') || ...('john doe')
TitleSaysUnidentified(raw) ==
    LET t == titleLower(raw)
    IN Includes(t, "unidentified") \/ Includes(t, "jane doe") \/ Includes(t, "john doe")

\* Mutant: the status is compared without toLowerCase().
IsCaptured_CaseSensitive(raw) == Str(raw.status) = "captured"

\* 1. status 'captured'
IsCaptured(raw) == statusLower(raw) = "captured"

\* 2. crime categories named by a subject tag or by the title
IsCyber(raw) ==
    \/ ListIncludes(subjectsLower(raw), "cyber's most wanted")
    \/ Includes(titleLower(raw), "cyber's most wanted")

IsCrimesAgainstChildren(raw) ==
    \/ ListIncludes(subjectsLower(raw), "crimes against children")
    \/ Includes(titleLower(raw), "crimes against children")

\* Mutant: the victim branch is left out.
ClassCodes_NoVictimBranch(raw) ==
    IF posterClassLower(raw) = "missing" \/ personClassLower(raw) = "missing person"
    THEN "MISSING_PERSON"
    ELSE IF \/ posterClassLower(raw) = "information"
            \/ personClassLower(raw) = "seeking information"
    THEN "SEEKING_INFORMATION"
    ELSE "WANTED_CRIMINAL"

\* 3. poster_classification / person_classification
ClassCodes(raw) ==
    IF posterClassLower(raw) = "missing" \/ personClassLower(raw) = "missing person"
    THEN "MISSING_PERSON"
    ELSE IF \/ posterClassLower(raw) = "information"
            \/ personClassLower(raw) = "seeking information"
    THEN "SEEKING_INFORMATION"
    ELSE IF posterClassLower(raw) = "victim" \/ personClassLower(raw) = "victim"
    THEN "UNSPECIFIED"
    ELSE "WANTED_CRIMINAL"

\* 4. keywords in the subject tags
SubjectKeywords(raw, c) ==
    LET subj == subjectsLower(raw)
    IN IF ~IsGeneric(c) THEN c
       ELSE IF \/ SomeIncludes(subj, "vicap missing persons")
               \/ SomeIncludes(subj, "kidnappings and missing persons")
               \/ SomeIncludes(subj, "missing person")
       THEN "MISSING_PERSON"
       ELSE IF SomeIncludes(subj, "seeking information")
       THEN "SEEKING_INFORMATION"
       ELSE IF \/ SomeIncludes(subj, "vicap unidentified persons")
               \/ SomeIncludes(subj, "unidentified human remains")
       THEN "UNIDENTIFIED_PERSON"
       ELSE IF \/ SomeIncludes(subj, "vicap homicides and sexual assaults")
               \/ SomeIncludes(subj, "homicide victim")
               \/ SomeIncludes(subj, "sexual assault victim")
       THEN IF TitleSaysUnidentified(raw) THEN "UNIDENTIFIED_PERSON"
            ELSE "VICTIM_OF_CRIME"
       ELSE c

\* 5. keywords in the title
TitleKeywords(raw, c) ==
    LET t == titleLower(raw)
    IN IF ~IsGeneric(c) THEN c
       ELSE IF \/ Includes(t, "missing person")
               \/ (Includes(t, "missing") /\ ~Includes(t, "information for missing"))
       THEN "MISSING_PERSON"
       ELSE IF Includes(t, "seeking information") \/ Includes(t, "information sought")
       THEN "SEEKING_INFORMATION"
       ELSE IF \/ Includes(t, "unidentified") \/ Includes(t, "jane doe")
               \/ Includes(t, "john doe") \/ Includes(t, "unidentified human remains")
       THEN "UNIDENTIFIED_PERSON"
       ELSE IF Includes(t, "victim of homicide") \/ Includes(t, "sexual assault victim")
       THEN "VICTIM_OF_CRIME"
       ELSE c

\* 6. description, details and remarks; not guarded by the current class
DeepText(raw, c) ==
    LET x == combinedTextLower(raw)
    IN IF \/ Includes(x, "body was found")
          \/ Includes(x, "victim of homicide")
          \/ Includes(x, "died as a result")
          \/ Includes(x, "suffered blunt force wounds")
          \/ Includes(x, "evidence of strangulation")
          \/ (/\ Includes(x, "cause of death")
              /\ ~Includes(x, "seeking information on cause of death"))
       THEN IF TitleSaysUnidentified(raw) \/ Includes(x, "unidentified human remains")
            THEN "UNIDENTIFIED_PERSON"
            ELSE "VICTIM_OF_CRIME"
       ELSE IF \/ Includes(x, "unidentified person")
               \/ Includes(x, "unidentified human remains")
               \/ Includes(x, "jane doe") \/ Includes(x, "john doe")
       THEN "UNIDENTIFIED_PERSON"
       ELSE IF \/ (/\ Includes(x, "was last seen")
                   /\ (Includes(x, "disappearance") \/ Includes(x, "missing since")))
               \/ (/\ Includes(x, "missing person")
                   /\ ~Includes(titleLower(raw), "information for missing"))
       THEN "MISSING_PERSON"
       ELSE IF /\ c = "WANTED_CRIMINAL"
               /\ (\/ Includes(x, "seeking information")
                   \/ Includes(x, "information sought")
                   \/ Includes(x, "public assistance is requested")
                   \/ Includes(x, "anyone with information"))
       THEN "SEEKING_INFORMATION"
       ELSE c

\* 7. ViCAP records still WANTED_CRIMINAL
Vicap(raw, c) ==
    LET subj == subjectsLower(raw)
        t == titleLower(raw)
    IN IF c = "WANTED_CRIMINAL" /\ (ListIncludes(subj, "vicap") \/ Includes(t, "vicap"))
       THEN IF \/ SomeIncludes(subj, "unidentified") \/ Includes(t, "unidentified")
               \/ SomeIncludes(subj, "victim") \/ Includes(t, "victim")
            THEN "UNIDENTIFIED_PERSON"
            ELSE IF \/ SomeIncludes(subj, "seeking information")
                    \/ Includes(t, "seeking information")
            THEN "SEEKING_INFORMATION"
            ELSE c
       ELSE c

\* the `every` test of step 8 on one subject tag
IsFillerSubject(subject) ==
    Includes(ToLowerCase(subject), "assistance") \/ LooksLikeDateOrPlace(subject)

\* Mutant: step 8 runs whatever the classification is.
DegenerateSubjects_Unguarded(raw, c) ==
    LET t == titleLower(raw)
        d == descriptionLower(raw)
        e == detailsLower(raw)
    IN IF /\ raw.subjects # None
          /\ \A n \in 1..Len(subjectsOf(raw)) : IsFillerSubject(subjectsOf(raw)[n])
       THEN IF Includes(t, "missing") THEN "MISSING_PERSON"
            ELSE IF Includes(t, "seeking information") THEN "SEEKING_INFORMATION"
            ELSE IF TitleSaysUnidentified(raw) THEN "UNIDENTIFIED_PERSON"
            ELSE IF Includes(t, "victim") THEN "VICTIM_OF_CRIME"
            ELSE IF Includes(d, "missing person") \/ Includes(e, "missing person")
            THEN "MISSING_PERSON"
            ELSE IF \/ Includes(d, "victim of homicide") \/ Includes(e, "victim of homicide")
                    \/ Includes(d, "body was found") \/ Includes(e, "body was found")
            THEN "VICTIM_OF_CRIME"
            ELSE IF /\ Len(subjectsOf(raw)) = 0 /\ ~Truthy(raw.title)
                    /\ ~Truthy(raw.description) /\ ~Truthy(raw.details)
            THEN "UNSPECIFIED"
            ELSE c
       ELSE c

\* 8. subjects empty or filler only, and still WANTED_CRIMINAL
DegenerateSubjects(raw, c) ==
    LET t == titleLower(raw)
        d == descriptionLower(raw)
        e == detailsLower(raw)
    IN IF /\ c = "WANTED_CRIMINAL"
          /\ raw.subjects # None
          /\ \A n \in 1..Len(subjectsOf(raw)) : IsFillerSubject(subjectsOf(raw)[n])
       THEN IF Includes(t, "missing") THEN "MISSING_PERSON"
            ELSE IF Includes(t, "seeking information") THEN "SEEKING_INFORMATION"
            ELSE IF TitleSaysUnidentified(raw) THEN "UNIDENTIFIED_PERSON"
            ELSE IF Includes(t, "victim") THEN "VICTIM_OF_CRIME"
            ELSE IF Includes(d, "missing person") \/ Includes(e, "missing person")
            THEN "MISSING_PERSON"
            ELSE IF \/ Includes(d, "victim of homicide") \/ Includes(e, "victim of homicide")
                    \/ Includes(d, "body was found") \/ Includes(e, "body was found")
            THEN "VICTIM_OF_CRIME"
            ELSE IF /\ Len(subjectsOf(raw)) = 0 /\ ~Truthy(raw.title)
                    /\ ~Truthy(raw.description) /\ ~Truthy(raw.details)
            THEN "UNSPECIFIED"
            ELSE c
       ELSE c

\* Mutant: step 9 is left out.
FinalDefault_Omitted(raw, c) == c

\* 9. still UNSPECIFIED with subjects: WANTED_CRIMINAL
FinalDefault(raw, c) ==
    IF c = "UNSPECIFIED" /\ raw.subjects # None /\ Len(subjectsOf(raw)) > 0
    THEN "WANTED_CRIMINAL"
    ELSE c

\* The cascade of steps 3 to 9, run when steps 1 and 2 did not decide.
Refine(raw) ==
    FinalDefault(raw,
      DegenerateSubjects(raw,
        Vicap(raw,
          DeepText(raw,
            TitleKeywords(raw,
              SubjectKeywords(raw, ClassCodes(raw)))))))

Classify(raw) ==
    IF IsCaptured(raw) THEN "CAPTURED"
    ELSE IF IsCyber(raw) THEN "CYBER_MOST_WANTED"
    ELSE IF IsCrimesAgainstChildren(raw) THEN "CRIMES_AGAINST_CHILDREN"
    ELSE Refine(raw)

(***************************************************************************)
(* normalizeFBIItem: caseTypeDesc and actualCharges (the switch), and the  *)
(* returned WantedPerson                                                   *)
(***************************************************************************)
\* Mutant: a case of the switch that leaves actualCharges at its initial value,
\* item.subjects || null.
ClearedCharges_Kept(raw) == raw.subjects

\* actualCharges = null, in every non-criminal case of the switch
ClearedCharges(raw) == None

\* Mutant: the victim case writes the label of the earlier five-value enum.
SwitchClassification_Legacy(c) ==
    IF c = "VICTIM_OF_CRIME" THEN "VICTIM_IDENTIFICATION" ELSE c

\* the switch leaves `classification` as it is; its default branch, which also
\* takes 'WANTED_CRIMINAL', sets it to 'WANTED_CRIMINAL'
SwitchClassification(c) ==
    IF c \in PersonClassification \ {"WANTED_CRIMINAL"} THEN c ELSE "WANTED_CRIMINAL"

\* item.subjects?.filter(s => s.toLowerCase() !== label) || null, and the
\* stand-in list when the filter leaves nothing
ChargesWithoutLabel(raw, label, standIn) ==
    IF raw.subjects = None THEN None
    ELSE LET NotLabel(t) == ToLowerCase(t) # label
             kept == SelectSeq(subjectsOf(raw), NotLabel)
         IN IF kept = <<>> THEN Some(<<standIn>>) ELSE Some(kept)

\* Mutant: no tag counts as naming an offence.
NamesAnOffence_Never(subject) == FALSE

NamesAnOffence(subject) ==
    LET l == ToLowerCase(subject)
    IN \/ Includes(l, "murder") \/ Includes(l, "fugitive")
       \/ Includes(l, "warrant") \/ Includes(l, "unlawful flight")

\* case 'WANTED_CRIMINAL' / default
WantedCriminalFields(raw) ==
    LET subj == subjectsOf(raw)
        charges0 == IF Len(subj) > 0 THEN Some(subj) ELSE None
        desc0 == FirstTruthy(<<raw.title, raw.description>>,
                             IF charges0 # None THEN Join(subj, " / ")
                             ELSE "Wanted Fugitive")
        unclear == /\ charges0 # None
                   /\ \E n \in 1..Len(subj) : LooksLikeDateOrPlace(subj[n])
                   /\ ~\E n \in 1..Len(subj) : NamesAnOffence(subj[n])
        charges1 == IF unclear THEN None ELSE charges0
        desc1 == IF unclear
                 THEN FirstTruthy(<<raw.title, raw.description>>,
                                  "Wanted Fugitive / Case Details Unclear")
                 ELSE desc0
        desc2 == IF charges1 = None
                 THEN FirstTruthy(<<raw.title, raw.description>>,
                                  "Wanted for Questioning or Unspecified Offenses")
                 ELSE desc1
    IN [classification |-> SwitchClassification("WANTED_CRIMINAL"),
        charges |-> charges1,
        caseTypeDesc |-> IF desc2 = "" THEN "Wanted Fugitive" ELSE desc2]

CaseFields(raw, c) ==
    CASE c = "CAPTURED" ->
           [classification |-> SwitchClassification(c), charges |-> ClearedCharges(raw),
            caseTypeDesc |-> "Captured - "
                \o FirstTruthy(<<raw.title>>, "Individual formerly sought")]
      [] c = "CYBER_MOST_WANTED" ->
           [classification |-> SwitchClassification(c),
            charges |-> ChargesWithoutLabel(raw, "cyber's most wanted", "Cyber Crimes"),
            caseTypeDesc |-> FirstTruthy(<<raw.title>>, "Cyber Crime Investigation")]
      [] c = "CRIMES_AGAINST_CHILDREN" ->
           [classification |-> SwitchClassification(c),
            charges |-> ChargesWithoutLabel(raw, "crimes against children",
                                            "Offenses against children"),
            caseTypeDesc |-> FirstTruthy(<<raw.title>>,
                                         "Case involving crimes against children")]
      [] c = "MISSING_PERSON" ->
           [classification |-> SwitchClassification(c), charges |-> ClearedCharges(raw),
            caseTypeDesc |-> FirstTruthy(<<raw.title, raw.description, raw.details,
                                           raw.remarks>>, "Missing Person Alert")]
      [] c = "SEEKING_INFORMATION" ->
           [classification |-> SwitchClassification(c), charges |-> ClearedCharges(raw),
            caseTypeDesc |-> FirstTruthy(<<raw.title, raw.description, raw.details>>,
                                         "Seeking Public Assistance")]
      [] c = "UNIDENTIFIED_PERSON" ->
           [classification |-> SwitchClassification(c), charges |-> ClearedCharges(raw),
            caseTypeDesc |-> FirstTruthy(<<raw.title, raw.description, raw.details,
                                           raw.remarks>>, "Unidentified Person Case")]
      [] c = "VICTIM_OF_CRIME" ->
           [classification |-> SwitchClassification(c), charges |-> ClearedCharges(raw),
            caseTypeDesc |-> FirstTruthy(<<raw.title, raw.description, raw.details,
                                           raw.remarks>>, "Victim of Crime Case")]
      [] c = "UNSPECIFIED" ->
           [classification |-> SwitchClassification(c), charges |-> ClearedCharges(raw),
            caseTypeDesc |-> FirstTruthy(<<raw.title, raw.description, raw.details>>,
                                         "General Alert")]
      [] OTHER -> WantedCriminalFields(raw)

\* `fbi-${item.uid}`: an absent uid prints as "undefined"
PersonId(raw) == "fbi-" \o (IF raw.uid = None THEN "undefined" ELSE raw.uid[1])

\* The returned object.  The fields copied verbatim from the record and read
\* by no modelled operation (warningMessage, rewardText, sex, ...) are left out.
BuildPerson(raw, c) ==
    LET f == CaseFields(raw, c)
    IN [id |-> PersonId(raw),
        rawId |-> raw.uid,
        source |-> "fbi",
        name |-> raw.title,
        images |-> IF uniqueImages(raw) # <<>> THEN uniqueImages(raw)
                   ELSE <<primaryDisplayImage(raw)>>,
        thumbnailUrl |-> primaryDisplayImage(raw),
        details |-> raw.details,
        remarks |-> raw.remarks,
        height |-> heightStr(raw),
        charges |-> f.charges,
        classification |-> f.classification,
        caseTypeDescription |-> f.caseTypeDesc,
        status |-> raw.status]

normalizeFBIItem(raw) == BuildPerson(raw, Classify(raw))

(***************************************************************************)
(* Raw records given to normalizeFBIItem                                   *)
(***************************************************************************)
MaxSubjects == 1    \* longest subject-tag list
MaxImages == 2      \* most image entries of a record

RECURSIVE SeqsUpTo(_, _)
SeqsUpTo(S, n) ==
    IF n = 0 THEN {<<>>}
    ELSE LET shorter == SeqsUpTo(S, n - 1)
         IN shorter \cup {Append(q, x) : q \in shorter, x \in S}

Statuses == {None, Some("na"), Some("Captured")}
PosterClassifications == {None, Some("missing"), Some("information"), Some("Victim")}
PersonClassifications == {None, Some("Main"), Some("Victim"), Some("Missing Person"),
                          Some("Seeking Information")}
SubjectTags == {"Bank Robbery", "ViCAP Homicides and Sexual Assaults",
                "ViCAP Unidentified Persons", "Seeking Information",
                "Cyber's Most Wanted", "March 3, 2020", "ViCAP"}
SubjectLists == {None} \cup {Some(q) : q \in SeqsUpTo(SubjectTags, MaxSubjects)}
Titles == {None, Some("John Smith"), Some("JANE DOE"), Some("Unidentified Male"),
           Some("Missing Teen"), Some("Homicide Victim"), Some("ViCAP Victim"),
           Some("Seeking Information")}
Descriptions == {None, Some("Her body was found"), Some("Jane Doe, cause of death unknown"),
                 Some("Unidentified human remains; body was found"),
                 Some("Was last seen in May, missing since"),
                 Some("Anyone with information"), Some("An unidentified victim")}
\* details and remarks
MoreTexts == {<<None, None>>, <<Some("John Doe"), None>>, <<None, Some("Victim of homicide")>>}
ImageUrls == [large : {"", "a"}, original : {"", "a", "b"}, thumb : {"", "t"}]
ImageLists == {None} \cup {Some(q) : q \in SeqsUpTo(ImageUrls, MaxImages)}
Heights == {None, Some(0), Some(60), Some(70), Some(72)}
Uids == {None, Some(""), Some("a1")}

BaseItem ==
    [uid |-> Some("a1"), title |-> Some("John Smith"), description |-> None,
     details |-> None, remarks |-> None, status |-> Some("na"),
     poster_classification |-> None, person_classification |-> Some("Main"),
     subjects |-> Some(<<>>), images |-> None, height_min |-> None, height_max |-> None]

\* records that differ in the texts the classification reads
TextItems ==
    {[BaseItem EXCEPT !.status = None, !.poster_classification = po, !.subjects = su,
                      !.title = ti, !.description = de, !.details = mo[1],
                      !.remarks = mo[2]] :
        po \in PosterClassifications, su \in SubjectLists, ti \in Titles,
        de \in Descriptions, mo \in MoreTexts}

\* records that differ in the status as well
StatusItems ==
    {[BaseItem EXCEPT !.status = st, !.poster_classification = po, !.subjects = su,
                      !.title = ti, !.description = de] :
        st \in Statuses, po \in PosterClassifications, su \in SubjectLists,
        ti \in Titles, de \in Descriptions}

\* records that differ in the image entries
ImageItems ==
    {[BaseItem EXCEPT !.images = im, !.title = ti] :
        im \in ImageLists, ti \in {None, Some("Jane Doe")}}
\* records that differ in the identifier, the height bounds and person_classification
OtherItems ==
    {[BaseItem EXCEPT !.uid = u, !.height_min = lo, !.height_max = hi,
                      !.person_classification = pe, !.subjects = su] :
        u \in Uids, lo \in Heights, hi \in Heights, pe \in PersonClassifications,
        su \in {None, Some(<<>>), Some(<<"Bank Robbery">>)}}

\* subject lists of two tags: an offence beside a date or a place
ChargeLists ==
    {<<"Bank Robbery", "March 3, 2020">>, <<"March 3, 2020", "Murder">>,
     <<"Bank Robbery", "Unlawful Flight to Avoid Prosecution">>,
     <<"Miami, Florida", "Bank Robbery">>, <<"Arrest Warrant", "Miami, Florida">>}

\* records that differ in a two-tag subject list
ChargeItems ==
    {[BaseItem EXCEPT !.subjects = Some(su), !.title = ti, !.description = de,
                      !.poster_classification = po] :
        su \in ChargeLists, ti \in {None, Some("John Smith")},
        de \in {None, Some("Anyone with information")},
        po \in {None, Some("Victim")}}

\* records that differ in which of the four texts are absent, empty or filled
CaseTextItems ==
    {[BaseItem EXCEPT !.status = st, !.poster_classification = po, !.title = ti,
                      !.description = de, !.details = dt, !.remarks = re] :
        st \in {Some("na"), Some("captured")},
        po \in PosterClassifications,
        ti \in {None, Some(""), Some("John Smith")},
        de \in {None, Some(""), Some("Her body was found")},
        dt \in {None, Some("Reported as a missing person")},
        re \in {None, Some("Jane Doe")}}

\* image entries that carry a thumbnail at most
ThumbOnlyUrls == [large : {""}, original : {""}, thumb : {"", "t", "u"}]

\* records whose image entries carry thumbnails only
ThumbItems ==
    {[BaseItem EXCEPT !.images = Some(im)] : im \in SeqsUpTo(ThumbOnlyUrls, MaxImages)}

RawItems ==
    TextItems \cup StatusItems \cup ImageItems \cup OtherItems \cup ChargeItems
        \cup CaseTextItems \cup ThumbItems

(***************************************************************************)
(* normalizeFBIItem, statement by statement                                *)
(***************************************************************************)
\* getFBIPersonDetails not called
DetailIdle ==
    /\ lookupId = None
    /\ directAnswer = None
    /\ directRequests = 0
    /\ directItem = None
    /\ details = None

\* normalizeInterpolItem not called
InterpolIdle ==
    /\ notice = None
    /\ detailedImagesFromApi = None
    /\ istep = "idle"
    /\ primaryImageForDisplay = None
    /\ allImagesForGallery = <<>>
    /\ combinedPerson = None

\* no person on display
ViewIdle ==
    /\ shown = None
    /\ primaryUrl = None
    /\ badge = None

\* getCombinedWantedList not called
CombinedIdle ==
    /\ pageSize = 0
    /\ fbiAnswer = None
    /\ interpolAnswer = None
    /\ fbiFetch = "none"
    /\ interpolFetch = "none"
    /\ fbiItems = <<>>
    /\ interpolItems = <<>>
    /\ cpc = "idle"
    /\ combinedList = <<>>

\* no AgeProgressionClient mounted
AgeIdle ==
    /\ photoDataUri = None
    /\ originalImageUrl = None
    /\ isLoading = FALSE
    /\ ageError = None
    /\ ageResult = None
    /\ reading = {}
    /\ inFlight = None
    /\ selections = 0

MoreIdle == ViewIdle /\ CombinedIdle /\ AgeIdle

RestIdle == DetailIdle /\ InterpolIdle /\ MoreIdle

\* getAllFBIWantedData not called
FetchIdle ==
    /\ source = None
    /\ itemsPerPage = 0
    /\ pc = "idle"
    /\ i = 0
    /\ currentPage = 0
    /\ apiReportedTotalItems = 0
    /\ successfullyFetchedItems = 0
    /\ allNormalizedPersons = <<>>
    /\ response = None
    /\ requests = <<>>
    /\ result = None

NormInit ==
    /\ item \in RawItems
    /\ step = "status"
    /\ classification = "UNSPECIFIED"
    /\ person = None
    /\ FetchIdle
    /\ RestIdle

CheckCaptured ==
    /\ step = "status"
    /\ IF IsCaptured(item)
       THEN classification' = "CAPTURED" /\ step' = "assemble"
       ELSE classification' = classification /\ step' = "tags"
    /\ UNCHANGED <<item, person, fetchVars, restVars>>

CheckCategoryTags ==
    /\ step = "tags"
    /\ IF IsCyber(item)
       THEN classification' = "CYBER_MOST_WANTED" /\ step' = "assemble"
       ELSE IF IsCrimesAgainstChildren(item)
       THEN classification' = "CRIMES_AGAINST_CHILDREN" /\ step' = "assemble"
       ELSE classification' = classification /\ step' = "codes"
    /\ UNCHANGED <<item, person, fetchVars, restVars>>

ApplyClassCodes ==
    /\ step = "codes"
    /\ classification' = ClassCodes(item)
    /\ step' = "subjects"
    /\ UNCHANGED <<item, person, fetchVars, restVars>>

ApplySubjectKeywords ==
    /\ step = "subjects"
    /\ classification' = SubjectKeywords(item, classification)
    /\ step' = "title"
    /\ UNCHANGED <<item, person, fetchVars, restVars>>

ApplyTitleKeywords ==
    /\ step = "title"
    /\ classification' = TitleKeywords(item, classification)
    /\ step' = "deep"
    /\ UNCHANGED <<item, person, fetchVars, restVars>>

ApplyDeepText ==
    /\ step = "deep"
    /\ classification' = DeepText(item, classification)
    /\ step' = "vicap"
    /\ UNCHANGED <<item, person, fetchVars, restVars>>

ApplyVicap ==
    /\ step = "vicap"
    /\ classification' = Vicap(item, classification)
    /\ step' = "degenerate"
    /\ UNCHANGED <<item, person, fetchVars, restVars>>

ApplyDegenerateSubjects ==
    /\ step = "degenerate"
    /\ classification' = DegenerateSubjects(item, classification)
    /\ step' = "final"
    /\ UNCHANGED <<item, person, fetchVars, restVars>>

ApplyFinalDefault ==
    /\ step = "final"
    /\ classification' = FinalDefault(item, classification)
    /\ step' = "assemble"
    /\ UNCHANGED <<item, person, fetchVars, restVars>>

Assemble ==
    /\ step = "assemble"
    /\ person' = Some(BuildPerson(item, classification))
    /\ classification' = person'[1].classification
    /\ step' = "done"
    /\ UNCHANGED <<item, fetchVars, restVars>>

NormNext ==
    \/ CheckCaptured
    \/ CheckCategoryTags
    \/ ApplyClassCodes
    \/ ApplySubjectKeywords
    \/ ApplyTitleKeywords
    \/ ApplyDeepText
    \/ ApplyVicap
    \/ ApplyDegenerateSubjects
    \/ ApplyFinalDefault
    \/ Assemble

SpecNormalize == NormInit /\ [][NormNext]_vars

\* The statement-by-statement run returns what the function returns.
StepsAgree == step = "done" => person = Some(normalizeFBIItem(item))

(***************************************************************************)
(* The FBI API as one call of getAllFBIWantedData meets it                 *)
(*                                                                         *)
(* The source holds a catalogue of records and serves it in pages of       *)
(* itemsPerPage; past the end it serves empty pages, unless it is endless  *)
(* and starts over, so that every page is full.  `total` is the total it   *)
(* reports (0: none).  Request number failAt (0: none) fails as failKind:  *)
(*   "network"  fetch rejects                                              *)
(*   "status"   the response has a non-success status                      *)
(*   "syntax"   the status is a success, the body is not JSON              *)
(*   "noitems"  the body is JSON without an `items` list                   *)
(***************************************************************************)
MAX_API_CALLS == 60

MaxCatalogue == 3   \* most records the source holds
MaxEndless == 1     \* most records an endless source holds
MaxFailAt == 2      \* latest request that fails

FailKinds == {"network", "status", "syntax", "noitems"}
ItemsPerPageValues == {1, 2}

FetchItems ==
    {[BaseItem EXCEPT !.uid = Some("a1"), !.title = Some("John Smith")],
     [BaseItem EXCEPT !.uid = Some("a1"), !.title = Some("John Smith"),
                      !.status = Some("captured")],
     [BaseItem EXCEPT !.uid = None, !.title = Some("Jane Doe")],
     [BaseItem EXCEPT !.uid = Some("c3"), !.title = Some("  ")]}

Failures ==
    {[at |-> 0, kind |-> "none"]} \cup [at : 1..MaxFailAt, kind : FailKinds]
SourcesHolding(cat, e) ==
    {[catalogue |-> cat, endless |-> e, total |-> t, failAt |-> f.at,
      failKind |-> f.kind] : t \in {0, Len(cat)}, f \in Failures}
Sources ==
    UNION ({SourcesHolding(cat, FALSE) : cat \in SeqsUpTo(FetchItems, MaxCatalogue)}
           \cup {SourcesHolding(cat, TRUE) : cat \in SeqsUpTo(FetchItems, MaxEndless)})

\* the items of page p for page size n
PageItems(src, p, n) ==
    LET cat == src.catalogue
        first == (p - 1) * n + 1
    IN IF cat = <<>> THEN <<>>
       ELSE IF src.endless
       THEN [k \in 1..n |-> cat[((first + k - 2) % Len(cat)) + 1]]
       ELSE IF first > Len(cat) THEN <<>>
       ELSE SubSeq(cat, first, IF first + n - 1 < Len(cat) THEN first + n - 1 ELSE Len(cat))

\* the decoded body of a successful answer
PageBody(src, p, n) == [items |-> Some(PageItems(src, p, n)), total |-> src.total]

(***************************************************************************)
(* getAllFBIWantedData, statement by statement                             *)
(***************************************************************************)
FetchInit ==
    /\ source \in Sources
    /\ itemsPerPage \in ItemsPerPageValues
    /\ pc = "loop"
    /\ i = 0
    /\ currentPage = 1
    /\ apiReportedTotalItems = 0
    /\ successfullyFetchedItems = 0
    /\ allNormalizedPersons = <<>>
    /\ response = None
    /\ requests = <<>>
    /\ result = None
    /\ item = BaseItem /\ step = "idle" /\ classification = "UNSPECIFIED" /\ person = None
    /\ RestIdle

\* Mutant: the loop test is i <= MAX_API_CALLS.
LoopTest_OffByOne ==
    /\ pc = "loop"
    /\ pc' = IF i <= MAX_API_CALLS THEN (IF i > 0 THEN "delay" ELSE "request") ELSE "finish"
    /\ UNCHANGED <<source, itemsPerPage, i, currentPage, apiReportedTotalItems,
                   successfullyFetchedItems, allNormalizedPersons, response, requests,
                   result, normVars, restVars>>

\* for (let i = 0; i < MAX_API_CALLS; i++) { if (i > 0) await delay(1000) ...
LoopTest ==
    /\ pc = "loop"
    /\ pc' = IF i < MAX_API_CALLS THEN (IF i > 0 THEN "delay" ELSE "request") ELSE "finish"
    /\ UNCHANGED <<source, itemsPerPage, i, currentPage, apiReportedTotalItems,
                   successfullyFetchedItems, allNormalizedPersons, response, requests,
                   result, normVars, restVars>>

\* the timer of delay(1000) fires
DelayElapsed ==
    /\ pc = "delay"
    /\ pc' = "request"
    /\ UNCHANGED <<source, itemsPerPage, i, currentPage, apiReportedTotalItems,
                   successfullyFetchedItems, allNormalizedPersons, response, requests,
                   result, normVars, restVars>>

\* Mutant: every request asks for page 1.
SendRequest_FirstPage ==
    /\ pc = "request"
    /\ requests' = Append(requests, 1)
    /\ pc' = "fetching"
    /\ UNCHANGED <<source, itemsPerPage, i, currentPage, apiReportedTotalItems,
                   successfullyFetchedItems, allNormalizedPersons, response, result,
                   normVars, restVars>>

\* fetchSingleFBIPage(currentPage, itemsPerPage) -> fetchJson -> fetch(url)
SendRequest ==
    /\ pc = "request"
    /\ requests' = Append(requests, currentPage)
    /\ pc' = "fetching"
    /\ UNCHANGED <<source, itemsPerPage, i, currentPage, apiReportedTotalItems,
                   successfullyFetchedItems, allNormalizedPersons, response, result,
                   normVars, restVars>>

FailsNow(kind) == source.failAt = Len(requests) /\ source.failKind = kind

\* Mutant: fetchJson without its catch block.
FetchNetworkError_Rethrow ==
    /\ pc = "fetching"
    /\ FailsNow("network")
    /\ pc' = "threw"
    /\ UNCHANGED <<source, itemsPerPage, i, currentPage, apiReportedTotalItems,
                   successfullyFetchedItems, allNormalizedPersons, response, requests,
                   result, normVars, restVars>>

\* fetchJson: fetch rejects; the catch block returns null
FetchNetworkError ==
    /\ pc = "fetching"
    /\ FailsNow("network")
    /\ response' = None
    /\ pc' = "page"
    /\ UNCHANGED <<source, itemsPerPage, i, currentPage, apiReportedTotalItems,
                   successfullyFetchedItems, allNormalizedPersons, requests, result,
                   normVars, restVars>>

\* fetchJson: !response.ok; returns null
FetchHttpError ==
    /\ pc = "fetching"
    /\ FailsNow("status")
    /\ response' = None
    /\ pc' = "page"
    /\ UNCHANGED <<source, itemsPerPage, i, currentPage, apiReportedTotalItems,
                   successfullyFetchedItems, allNormalizedPersons, requests, result,
                   normVars, restVars>>

\* fetchJson: `return response.json()` hands the promise out of the try block
\* unawaited, so its rejection passes the catch block; no caller up to and
\* including getAllFBIWantedData catches it.
FetchBadJson ==
    /\ pc = "fetching"
    /\ FailsNow("syntax")
    /\ pc' = "threw"
    /\ UNCHANGED <<source, itemsPerPage, i, currentPage, apiReportedTotalItems,
                   successfullyFetchedItems, allNormalizedPersons, response, requests,
                   result, normVars, restVars>>

\* fetchJson: response.json() resolves
FetchJsonOk ==
    /\ pc = "fetching"
    /\ source.failAt # Len(requests) \/ source.failKind = "noitems"
    /\ response' = IF FailsNow("noitems")
                   THEN Some([items |-> None, total |-> source.total])
                   ELSE Some(PageBody(source, currentPage, itemsPerPage))
    /\ pc' = "page"
    /\ UNCHANGED <<source, itemsPerPage, i, currentPage, apiReportedTotalItems,
                   successfullyFetchedItems, allNormalizedPersons, requests, result,
                   normVars, restVars>>

\* p.name && p.name.trim() !== ""
HasName(p) == Truthy(p.name) /\ Trim(Str(p.name)) # ""

\* response.items.map(item => normalizeFBIItem(item)).filter(...)
normalizedPageItems(items) ==
    SelectSeq([k \in 1..Len(items) |-> normalizeFBIItem(items[k])], HasName)

\* the loop body after the await
ProcessPage ==
    /\ pc = "page"
    /\ IF response = None \/ response[1].items = None
       THEN /\ pc' = "finish"
            /\ UNCHANGED <<i, currentPage, apiReportedTotalItems,
                           successfullyFetchedItems, allNormalizedPersons>>
       ELSE LET body == response[1]
                items == body.items[1]
                total == IF i = 0 /\ body.total # 0 THEN body.total
                         ELSE apiReportedTotalItems
                all == allNormalizedPersons \o normalizedPageItems(items)
                stop == \/ (total > 0 /\ Len(all) >= total)
                        \/ Len(items) < itemsPerPage
            IN /\ apiReportedTotalItems' = total
               /\ allNormalizedPersons' = all
               /\ successfullyFetchedItems' = Len(all)
               /\ IF stop
                  THEN pc' = "finish" /\ UNCHANGED <<i, currentPage>>
                  ELSE pc' = "loop" /\ currentPage' = currentPage + 1 /\ i' = i + 1
    /\ UNCHANGED <<source, itemsPerPage, response, requests, result, normVars, restVars>>

\* Mutant: the list is returned without the pass through a Map.
uniquePersons_NoDedupe(list) == list

\* Array.from(new Map(list.map(p => [p.id, p])).values()): one entry per id, at
\* the place of the id's first occurrence, holding its last occurrence
uniquePersons(list) ==
    LET FirstOfId(k) == \A j \in 1..(k - 1) : list[j].id # list[k].id
        LastWithId(k) == CHOOSE j \in k..Len(list) :
                            /\ list[j].id = list[k].id
                            /\ \A m \in (j + 1)..Len(list) : list[m].id # list[k].id
        firsts == SelectSeq([k \in 1..Len(list) |-> k], FirstOfId)
    IN [n \in 1..Len(firsts) |-> list[LastWithId(firsts[n])]]

ReturnPersons ==
    /\ pc = "finish"
    /\ result' = Some(uniquePersons(allNormalizedPersons))
    /\ pc' = "done"
    /\ UNCHANGED <<source, itemsPerPage, i, currentPage, apiReportedTotalItems,
                   successfullyFetchedItems, allNormalizedPersons, response, requests,
                   normVars, restVars>>

FetchNext ==
    \/ LoopTest
    \/ DelayElapsed
    \/ SendRequest
    \/ FetchNetworkError
    \/ FetchHttpError
    \/ FetchBadJson
    \/ FetchJsonOk
    \/ ProcessPage
    \/ ReturnPersons

SpecFetch == FetchInit /\ [][FetchNext]_vars

(***************************************************************************)
(* getFBIPersonDetails of src/unnamed/part_007: one request to the object  *)
(* endpoint, then the scan of the paginated list.  The scan is that file's *)
(* getAllFBIWantedData, whose loop is statement for statement the loop     *)
(* modelled above (the delay is 1500 ms and the page size is capped at     *)
(* 50); the lookup reads only rawId and name of the persons it yields.     *)
(*                                                                         *)
(* directAnswer.kind is how the object endpoint answers:                   *)
(*   "network"  fetch rejects                                              *)
(*   "status"   the response has a non-success status                      *)
(*   "syntax"   the status is a success, the body is not JSON              *)
(*   "json"     the body decodes to directAnswer.body                      *)
(***************************************************************************)
MaxDetailCatalogue == 1   \* most records the scanned source holds

LookupIds == {"a1", "zz"}

\* The object endpoint fails, or answers with a record: the one asked for, one
\* without a uid, or another one (the code does not tell them apart).
DirectAnswersFor(id) ==
    {[kind |-> k, body |-> None] : k \in {"network", "status", "syntax"}}
    \cup {[kind |-> "json", body |-> Some([BaseItem EXCEPT !.uid = u])] :
              u \in {Some(id), None, Some("b2")}}

DetailSources ==
    UNION {SourcesHolding(cat, e) :
              cat \in SeqsUpTo(FetchItems, MaxDetailCatalogue), e \in BOOLEAN}

DetailInit ==
    /\ lookupId \in LookupIds
    /\ directAnswer \in DirectAnswersFor(lookupId)
    /\ directRequests = 0
    /\ directItem = None
    /\ details = None
    /\ pc = "d_start"
    /\ source \in DetailSources
    /\ itemsPerPage \in ItemsPerPageValues
    /\ i = 0
    /\ currentPage = 1
    /\ apiReportedTotalItems = 0
    /\ successfullyFetchedItems = 0
    /\ allNormalizedPersons = <<>>
    /\ response = None
    /\ requests = <<>>
    /\ result = None
    /\ item = BaseItem /\ step = "idle" /\ classification = "UNSPECIFIED" /\ person = None
    /\ InterpolIdle
    /\ MoreIdle

\* await fetchJson<FBIWantedItem>(directUrl, ...) -> fetch(url)
DirectRequest ==
    /\ pc = "d_start"
    /\ directRequests' = directRequests + 1
    /\ pc' = "d_fetching"
    /\ UNCHANGED <<lookupId, directAnswer, directItem, details, source, itemsPerPage, i,
                   currentPage, apiReportedTotalItems, successfullyFetchedItems,
                   allNormalizedPersons, response, requests, result, normVars, interpolVars, moreVars>>

\* fetchJson: fetch rejects; the catch block returns null
DirectNetworkError ==
    /\ pc = "d_fetching"
    /\ directAnswer.kind = "network"
    /\ directItem' = None
    /\ pc' = "d_got"
    /\ UNCHANGED <<lookupId, directAnswer, directRequests, details, source, itemsPerPage,
                   i, currentPage, apiReportedTotalItems, successfullyFetchedItems,
                   allNormalizedPersons, response, requests, result, normVars, interpolVars, moreVars>>

\* fetchJson: !response.ok; returns null
DirectHttpError ==
    /\ pc = "d_fetching"
    /\ directAnswer.kind = "status"
    /\ directItem' = None
    /\ pc' = "d_got"
    /\ UNCHANGED <<lookupId, directAnswer, directRequests, details, source, itemsPerPage,
                   i, currentPage, apiReportedTotalItems, successfullyFetchedItems,
                   allNormalizedPersons, response, requests, result, normVars, interpolVars, moreVars>>

\* fetchJson: the promise of response.json() rejects; the await of
\* getFBIPersonDetails is inside its first try block, whose catch logs and
\* falls through to the list scan
DirectBadJson ==
    /\ pc = "d_fetching"
    /\ directAnswer.kind = "syntax"
    /\ pc' = "d_fallback"
    /\ UNCHANGED <<lookupId, directAnswer, directRequests, directItem, details, source,
                   itemsPerPage, i, currentPage, apiReportedTotalItems,
                   successfullyFetchedItems, allNormalizedPersons, response, requests,
                   result, normVars, interpolVars, moreVars>>

\* fetchJson: response.json() resolves
DirectJsonOk ==
    /\ pc = "d_fetching"
    /\ directAnswer.kind = "json"
    /\ directItem' = directAnswer.body
    /\ pc' = "d_got"
    /\ UNCHANGED <<lookupId, directAnswer, directRequests, details, source, itemsPerPage,
                   i, currentPage, apiReportedTotalItems, successfullyFetchedItems,
                   allNormalizedPersons, response, requests, result, normVars, interpolVars, moreVars>>

\* item && item.uid
DirectHit(o) == o # None /\ Truthy(o[1].uid)

\* if (item && item.uid) return normalizeFBIItem(item); otherwise fall back
DirectCheck ==
    /\ pc = "d_got"
    /\ IF DirectHit(directItem)
       THEN details' = Some(normalizeFBIItem(directItem[1])) /\ pc' = "d_done"
       ELSE details' = details /\ pc' = "d_fallback"
    /\ UNCHANGED <<lookupId, directAnswer, directRequests, directItem, source,
                   itemsPerPage, i, currentPage, apiReportedTotalItems,
                   successfullyFetchedItems, allNormalizedPersons, response, requests,
                   result, normVars, interpolVars, moreVars>>

\* const allData = await getAllFBIWantedData()
StartListScan ==
    /\ pc = "d_fallback"
    /\ pc' = "loop"
    /\ UNCHANGED <<lookupId, directAnswer, directRequests, directItem, details, source,
                   itemsPerPage, i, currentPage, apiReportedTotalItems,
                   successfullyFetchedItems, allNormalizedPersons, response, requests,
                   result, normVars, interpolVars, moreVars>>

\* allData.find(p => p.rawId === id), None for undefined
FindById(list, id) ==
    LET hits == {k \in 1..Len(list) : list[k].rawId = Some(id)}
    IN IF hits = {} THEN None
       ELSE Some(list[CHOOSE k \in hits : \A j \in hits : k <= j])

\* if (person) return person; ... return null
FindInList ==
    /\ pc = "done"
    /\ details' = FindById(result[1], lookupId)
    /\ pc' = "d_done"
    /\ UNCHANGED <<lookupId, directAnswer, directRequests, directItem, source,
                   itemsPerPage, i, currentPage, apiReportedTotalItems,
                   successfullyFetchedItems, allNormalizedPersons, response, requests,
                   result, normVars, interpolVars, moreVars>>

\* Mutant: the second try block has no catch.
CatchListError_Rethrow ==
    /\ pc = "threw"
    /\ pc' = "d_threw"
    /\ UNCHANGED <<lookupId, directAnswer, directRequests, directItem, details, source,
                   itemsPerPage, i, currentPage, apiReportedTotalItems,
                   successfullyFetchedItems, allNormalizedPersons, response, requests,
                   result, normVars, interpolVars, moreVars>>

\* catch (listError) { ...; return null }
CatchListError ==
    /\ pc = "threw"
    /\ details' = None
    /\ pc' = "d_done"
    /\ UNCHANGED <<lookupId, directAnswer, directRequests, directItem, source,
                   itemsPerPage, i, currentPage, apiReportedTotalItems,
                   successfullyFetchedItems, allNormalizedPersons, response, requests,
                   result, normVars, interpolVars, moreVars>>

DetailNext ==
    \/ DirectRequest
    \/ DirectNetworkError
    \/ DirectHttpError
    \/ DirectBadJson
    \/ DirectJsonOk
    \/ DirectCheck
    \/ StartListScan
    \/ LoopTest
    \/ DelayElapsed
    \/ SendRequest
    \/ FetchNetworkError
    \/ FetchHttpError
    \/ FetchBadJson
    \/ FetchJsonOk
    \/ ProcessPage
    \/ ReturnPersons
    \/ FindInList
    \/ CatchListError

SpecDetails == DetailInit /\ [][DetailNext]_vars

(***************************************************************************)
(* normalizeInterpolItem of src/unnamed/part_008, statement by statement.  *)
(* An image entry is its _links?.self?.href, the notice's thumbnail is its *)
(* _links?.thumbnail?.href; both are None when a link of the chain is      *)
(* missing.                                                                *)
(***************************************************************************)
MaxInterpolImages == 2    \* most entries of detailedImagesFromApi

InterpolHrefs == {None, Some("ia"), Some("ib")}
Notices ==
    [forename : {None, Some("Ana")}, name : {None, Some("Silva")},
     thumbnail : InterpolHrefs, entity_id : {"2023/1"}]
DetailedImageLists ==
    {None} \cup {Some(q) : q \in SeqsUpTo(InterpolHrefs, MaxInterpolImages)}

\* the values of a list of optional strings that are truthy
TruthyValues(opts) ==
    LET kept == SelectSeq(opts, Truthy)
    IN [k \in 1..Len(kept) |-> kept[k][1]]

\* nameParts.join(' ') || 'N/A'
fullName(n) ==
    LET joined == Join(TruthyValues(<<n.forename, n.name>>), " ")
    IN IF joined = "" THEN "N/A" ELSE joined

\* `https://placehold.co/300x400.png?text=${encodeURIComponent(fullName || 'No Image')}`
InterpolPlaceholder(n) ==
    "https://placehold.co/300x400.png?text="
        \o encodeURIComponent(FirstTruthy(<<Some(fullName(n))>>, "No Image"))

\* s.replace('/', '-'): the first '/' only
RECURSIVE ReplaceFirstSlash(_)
ReplaceFirstSlash(s) ==
    IF s = "" THEN ""
    ELSE IF Head(s) = Head("/") THEN "-" \o Tail(s)
    ELSE SubSeq(s, 1, 1) \o ReplaceFirstSlash(Tail(s))

InterpolInit ==
    /\ notice \in Notices
    /\ detailedImagesFromApi \in DetailedImageLists
    /\ istep = "detailed"
    /\ primaryImageForDisplay = None
    /\ allImagesForGallery = <<>>
    /\ combinedPerson = None
    /\ item = BaseItem /\ step = "idle" /\ classification = "UNSPECIFIED" /\ person = None
    /\ FetchIdle
    /\ DetailIdle
    /\ MoreIdle

\* if (detailedImagesFromApi && detailedImagesFromApi.length > 0 &&
\*     detailedImagesFromApi[0]?._links?.self?.href) { ... }
UseDetailedImages ==
    /\ istep = "detailed"
    /\ IF /\ detailedImagesFromApi # None
          /\ Len(detailedImagesFromApi[1]) > 0
          /\ Truthy(detailedImagesFromApi[1][1])
       THEN /\ primaryImageForDisplay' = detailedImagesFromApi[1][1]
            /\ allImagesForGallery' = TruthyValues(detailedImagesFromApi[1])
       ELSE UNCHANGED <<primaryImageForDisplay, allImagesForGallery>>
    /\ istep' = "thumbnail"
    /\ UNCHANGED <<notice, detailedImagesFromApi, combinedPerson, normVars, fetchVars,
                   detailVars, moreVars>>

\* if (!primaryImageForDisplay && item._links?.thumbnail?.href) { ... }
UseThumbnail ==
    /\ istep = "thumbnail"
    /\ LET generalThumbnailIsDifferent ==
               \/ detailedImagesFromApi = None
               \/ Len(detailedImagesFromApi[1]) = 0
               \/ ~\E k \in 1..Len(detailedImagesFromApi[1]) :
                      detailedImagesFromApi[1][k] = notice.thumbnail
       IN IF /\ ~Truthy(primaryImageForDisplay)
             /\ Truthy(notice.thumbnail)
             /\ generalThumbnailIsDifferent
          THEN primaryImageForDisplay' = notice.thumbnail
          ELSE primaryImageForDisplay' = primaryImageForDisplay
    /\ istep' = "placeholder"
    /\ UNCHANGED <<notice, detailedImagesFromApi, allImagesForGallery, combinedPerson,
                   normVars, fetchVars, detailVars, moreVars>>

\* if (!primaryImageForDisplay && allImagesForGallery.length > 0) ...
\* else if (!primaryImageForDisplay) ... placeholder
UsePlaceholder ==
    /\ istep = "placeholder"
    /\ IF ~Truthy(primaryImageForDisplay) /\ Len(allImagesForGallery) > 0
       THEN primaryImageForDisplay' = Some(allImagesForGallery[1])
       ELSE IF ~Truthy(primaryImageForDisplay)
       THEN primaryImageForDisplay' = Some(InterpolPlaceholder(notice))
       ELSE primaryImageForDisplay' = primaryImageForDisplay
    /\ istep' = "gallery"
    /\ UNCHANGED <<notice, detailedImagesFromApi, allImagesForGallery, combinedPerson,
                   normVars, fetchVars, detailVars, moreVars>>

\* if (allImagesForGallery.length === 0) { ... }: both branches ask that
\* the primary image does not include 'placehold.co'
EnsureGallery ==
    /\ istep = "gallery"
    /\ IF Len(allImagesForGallery) = 0
       THEN IF /\ Truthy(primaryImageForDisplay)
               /\ ~Includes(primaryImageForDisplay[1], "placehold.co")
            THEN allImagesForGallery' = <<primaryImageForDisplay[1]>>
            ELSE IF ~Includes(Str(primaryImageForDisplay), "placehold.co")
            THEN allImagesForGallery' = <<InterpolPlaceholder(notice)>>
            ELSE allImagesForGallery' = allImagesForGallery
       ELSE allImagesForGallery' = allImagesForGallery
    /\ istep' = "return"
    /\ UNCHANGED <<notice, detailedImagesFromApi, primaryImageForDisplay, combinedPerson,
                   normVars, fetchVars, detailVars, moreVars>>

\* the returned object; the fields read by no modelled operation are left out
ReturnNotice ==
    /\ istep = "return"
    /\ combinedPerson' =
          Some([id |-> "interpol-" \o ReplaceFirstSlash(notice.entity_id),
                rawId |-> notice.entity_id,
                source |-> "interpol",
                name |-> fullName(notice),
                images |-> allImagesForGallery,
                thumbnailUrl |-> primaryImageForDisplay,
                classification |-> "WANTED_CRIMINAL"])
    /\ istep' = "done"
    /\ UNCHANGED <<notice, detailedImagesFromApi, primaryImageForDisplay,
                   allImagesForGallery, normVars, fetchVars, detailVars, moreVars>>

InterpolNext ==
    \/ UseDetailedImages
    \/ UseThumbnail
    \/ UsePlaceholder
    \/ EnsureGallery
    \/ ReturnNotice

SpecInterpol == InterpolInit /\ [][InterpolNext]_vars

(***************************************************************************)
(* getPrimaryImageUrl (api.ts)                                             *)
(*                                                                         *)
(* Of the WantedPerson only images, thumbnailUrl and name are read.        *)
(***************************************************************************)
MaxShownImages == 2   \* longest images list of a person on display

StoredUrls ==
    {"", "a", "https://placehold.co/300x400.png?text=No%20Image",
     "https://cdn.example/No+Image.png"}

ShownPersons ==
    [images : {None} \cup {Some(q) : q \in SeqsUpTo(StoredUrls, MaxShownImages)},
     thumbnailUrl : {None} \cup {Some(u) : u \in StoredUrls},
     name : {None, Some(""), Some("Jane Doe")}]

\* `https://placehold.co/600x800.png?text=${encodeURIComponent(person.name || 'N/A')}`
FreshPlaceholder(p) ==
    "https://placehold.co/600x800.png?text="
        \o encodeURIComponent(FirstTruthy(<<p.name>>, "N/A"))

\* Mutant: the stored thumbnail is returned without the placeholder test.
getPrimaryImageUrl_ThumbnailUntested(p) ==
    IF /\ p.images # None /\ Len(p.images[1]) > 0 /\ p.images[1][1] # ""
       /\ ~Includes(p.images[1][1], "placehold.co")
    THEN p.images[1][1]
    ELSE IF Truthy(p.thumbnailUrl)
    THEN p.thumbnailUrl[1]
    ELSE FreshPlaceholder(p)

getPrimaryImageUrl(p) ==
    IF /\ p.images # None /\ Len(p.images[1]) > 0 /\ p.images[1][1] # ""
       /\ ~Includes(p.images[1][1], "placehold.co")
    THEN p.images[1][1]
    ELSE IF /\ Truthy(p.thumbnailUrl)
            /\ ~Includes(p.thumbnailUrl[1], "placehold.co")
            /\ ~Includes(p.thumbnailUrl[1], "No+Image")
    THEN p.thumbnailUrl[1]
    ELSE FreshPlaceholder(p)

PrimaryImageInit ==
    /\ shown \in {Some(p) : p \in ShownPersons}
    /\ primaryUrl = None
    /\ badge = None
    /\ item = BaseItem /\ step = "idle" /\ classification = "UNSPECIFIED" /\ person = None
    /\ FetchIdle
    /\ DetailIdle
    /\ InterpolIdle
    /\ CombinedIdle
    /\ AgeIdle

CallGetPrimaryImageUrl ==
    /\ shown # None
    /\ primaryUrl = None
    /\ primaryUrl' = Some(getPrimaryImageUrl(shown[1]))
    /\ UNCHANGED <<shown, badge, normVars, fetchVars, detailVars, interpolVars,
                   combinedVars, ageVars>>

PrimaryImageNext == CallGetPrimaryImageUrl

SpecPrimaryImage == PrimaryImageInit /\ [][PrimaryImageNext]_vars

(***************************************************************************)
(* WantedCard (WantedCard.tsx): the badge over the photo                   *)
(***************************************************************************)
\* the persons normalizeFBIItem makes of the records that differ in status,
\* class code, subject tag, title and description
CardPersons == {normalizeFBIItem(raw) : raw \in StatusItems}

\* getClassificationBadge: the text of the badge the switch returns
getClassificationBadge(c) ==
    CASE c = "MISSING_PERSON" -> "Missing"
      [] c = "VICTIM_IDENTIFICATION" -> "Unidentified"
      [] c = "SEEKING_INFORMATION" -> "Seeking Info"
      [] OTHER -> "FBI MOST WANTED"

CardInit ==
    /\ shown \in {Some(p) : p \in CardPersons}
    /\ primaryUrl = None
    /\ badge = None
    /\ item = BaseItem /\ step = "idle" /\ classification = "UNSPECIFIED" /\ person = None
    /\ FetchIdle
    /\ DetailIdle
    /\ InterpolIdle
    /\ CombinedIdle
    /\ AgeIdle

\* {getClassificationBadge()} in the card header
RenderBadge ==
    /\ shown # None
    /\ badge = None
    /\ badge' = Some(getClassificationBadge(shown[1].classification))
    /\ UNCHANGED <<shown, primaryUrl, normVars, fetchVars, detailVars, interpolVars,
                   combinedVars, ageVars>>

CardNext == RenderBadge

SpecCard == CardInit /\ [][CardNext]_vars

(***************************************************************************)
(* getCombinedWantedList (part_005)                                        *)
(*                                                                         *)
(* Of a raw FBI record the call reads uid, title and publication, of an    *)
(* Interpol notice entity_id, forename and name; of the persons the two    *)
(* normalisers return, the sort reads originalData.publication and name.   *)
(* A publication date is the number `new Date(...).getTime()` gives.       *)
(***************************************************************************)
MaxListed == 2     \* most records in one answer of either API

ListedFbiItems ==
    {[uid |-> Some("a1"), title |-> Some("Bob"), publication |-> Some(2)],
     [uid |-> Some("b2"), title |-> Some("Ann Lee"), publication |-> Some(1)],
     [uid |-> Some("c3"), title |-> Some("Cy"), publication |-> None],
     [uid |-> None, title |-> Some("Dee"), publication |-> Some(3)]}

ListedNotices ==
    {[entity_id |-> Some("2020/1/7"), forename |-> Some("Al"), name |-> Some("Zed")],
     [entity_id |-> Some("2021/5"), forename |-> None, name |-> None],
     [entity_id |-> None, forename |-> Some("Eve"), name |-> None]}

\* an answer: a JSON body with the list, a JSON body without it, or a failure
ListFailures == {"network", "status", "syntax"}
ListAnswers(records) ==
    {[kind |-> "json", body |-> Some(q)] : q \in SeqsUpTo(records, MaxListed)}
        \cup {[kind |-> "json", body |-> None]}
        \cup {[kind |-> k, body |-> None] : k \in ListFailures}
PageSizes == {1, 2, 20}

\* pageSize <= 1 ? pageSize : Math.max(1, Math.floor(pageSize / 2) + (pageSize % 2))
fbiPageSize(n) ==
    IF n <= 1 THEN n
    ELSE LET half == (n \div 2) + (n % 2) IN IF half > 1 THEN half ELSE 1

\* pageSize <= 1 ? 0 : Math.max(0, Math.floor(pageSize / 2))
interpolPageSize(n) == IF n <= 1 THEN 0 ELSE n \div 2

\* s.replace(/\//g, '-')
RECURSIVE ReplaceAllSlashes(_)
ReplaceAllSlashes(s) ==
    IF s = "" THEN ""
    ELSE (IF Head(s) = Head("/") THEN "-" ELSE SubSeq(s, 1, 1))
            \o ReplaceAllSlashes(Tail(s))

\* normalizeFBIItem and normalizeInterpolItem, the fields read afterwards
ListedFbiPerson(raw) ==
    [id |-> "fbi-" \o raw.uid[1], source |-> "fbi", name |-> raw.title,
     publication |-> raw.publication]
ListedInterpolPerson(n) ==
    [id |-> "interpol-" \o ReplaceAllSlashes(n.entity_id[1]), source |-> "interpol",
     name |-> Some(fullName(n)), publication |-> None]

\* String.prototype.localeCompare on the names of the records above
CollationOrder == <<"", "Al Zed", "Ann Lee", "Bob", "Cy", "Dee", "Eve", "N/A">>
localeCompare(a, b) ==
    LET ra == CHOOSE k \in 1..Len(CollationOrder) : CollationOrder[k] = a
        rb == CHOOSE k \in 1..Len(CollationOrder) : CollationOrder[k] = b
    IN ra - rb

\* the comparator handed to sort
ComparePersons(a, b) ==
    LET dateA == IF a.publication = None THEN 0 ELSE a.publication[1]
        dateB == IF b.publication = None THEN 0 ELSE b.publication[1]
    IN IF dateA # 0 /\ dateB # 0 THEN dateB - dateA
       ELSE IF dateA # 0 THEN -1
       ELSE IF dateB # 0 THEN 1
       ELSE localeCompare(Str(a.name), Str(b.name))

\* Array.prototype.sort, which is stable
RECURSIVE SortPersons(_)
SortPersons(list) ==
    IF list = <<>> THEN <<>>
    ELSE LET init == SortPersons(SubSeq(list, 1, Len(list) - 1))
             last == list[Len(list)]
             keep == {k \in 1..Len(init) : ComparePersons(init[k], last) <= 0}
             at == IF keep = {} THEN 0 ELSE CHOOSE k \in keep : \A j \in keep : j <= k
         IN SubSeq(init, 1, at) \o <<last>> \o SubSeq(init, at + 1, Len(init))

HasUid(raw) == Truthy(raw.uid)
HasEntityId(n) == Truthy(n.entity_id)

\* the body of getCombinedWantedList after the await
CombinedOf(fbi, interpol) ==
    LET f == SelectSeq(fbi, HasUid)
        n == SelectSeq(interpol, HasEntityId)
    IN SortPersons([k \in 1..Len(f) |-> ListedFbiPerson(f[k])]
                      \o [k \in 1..Len(n) |-> ListedInterpolPerson(n[k])])

CombinedInit ==
    /\ pageSize \in PageSizes
    /\ fbiAnswer \in {Some(a) : a \in ListAnswers(ListedFbiItems)}
    /\ interpolAnswer \in {Some(a) : a \in ListAnswers(ListedNotices)}
    /\ fbiFetch = "none"
    /\ interpolFetch = "none"
    /\ fbiItems = <<>>
    /\ interpolItems = <<>>
    /\ cpc = "start"
    /\ combinedList = <<>>
    /\ item = BaseItem /\ step = "idle" /\ classification = "UNSPECIFIED" /\ person = None
    /\ FetchIdle
    /\ DetailIdle
    /\ InterpolIdle
    /\ ViewIdle
    /\ AgeIdle

\* fbiItemsPromise = fetchFBIWantedList(...); interpolItemsPromise = ... ;
\* await Promise.all([...])
StartBothFetches ==
    /\ cpc = "start"
    /\ fbiFetch' = "pending"
    /\ interpolFetch' = IF interpolPageSize(pageSize) > 0 THEN "pending" ELSE "resolved"
    /\ cpc' = "awaiting"
    /\ UNCHANGED <<pageSize, fbiAnswer, interpolAnswer, fbiItems, interpolItems,
                   combinedList, viewVars, ageVars, normVars, fetchVars, detailVars, interpolVars>>

\* fetchFBIWantedList: fetchJson gave the body or null; data?.items || []
FbiListResolves ==
    /\ fbiFetch = "pending"
    /\ fbiAnswer[1].kind \in {"json", "network", "status"}
    /\ fbiItems' = IF fbiAnswer[1].body = None THEN <<>> ELSE fbiAnswer[1].body[1]
    /\ fbiFetch' = "resolved"
    /\ UNCHANGED <<pageSize, fbiAnswer, interpolAnswer, interpolFetch, interpolItems, cpc,
                   combinedList, viewVars, ageVars, normVars, fetchVars, detailVars, interpolVars>>

\* fetchJson: `return response.json()` leaves the try block unawaited; its
\* rejection passes the catch block and rejects fetchFBIWantedList
FbiListRejects ==
    /\ fbiFetch = "pending"
    /\ fbiAnswer[1].kind = "syntax"
    /\ fbiFetch' = "rejected"
    /\ UNCHANGED <<pageSize, fbiAnswer, interpolAnswer, interpolFetch, fbiItems,
                   interpolItems, cpc, combinedList, viewVars, ageVars, normVars, fetchVars,
                   detailVars, interpolVars>>

\* fetchInterpolRedNotices: data?._embedded?.notices || []
InterpolListResolves ==
    /\ interpolFetch = "pending"
    /\ interpolAnswer[1].kind \in {"json", "network", "status"}
    /\ interpolItems' = IF interpolAnswer[1].body = None THEN <<>>
                        ELSE interpolAnswer[1].body[1]
    /\ interpolFetch' = "resolved"
    /\ UNCHANGED <<pageSize, fbiAnswer, interpolAnswer, fbiFetch, fbiItems, cpc,
                   combinedList, viewVars, ageVars, normVars, fetchVars, detailVars, interpolVars>>

InterpolListRejects ==
    /\ interpolFetch = "pending"
    /\ interpolAnswer[1].kind = "syntax"
    /\ interpolFetch' = "rejected"
    /\ UNCHANGED <<pageSize, fbiAnswer, interpolAnswer, fbiFetch, fbiItems,
                   interpolItems, cpc, combinedList, viewVars, ageVars, normVars, fetchVars,
                   detailVars, interpolVars>>

\* Promise.all fulfils when both promises have
PromiseAllFulfils ==
    /\ cpc = "awaiting"
    /\ fbiFetch = "resolved"
    /\ interpolFetch = "resolved"
    /\ cpc' = "joined"
    /\ UNCHANGED <<pageSize, fbiAnswer, interpolAnswer, fbiFetch, interpolFetch, fbiItems,
                   interpolItems, combinedList, viewVars, ageVars, normVars, fetchVars,
                   detailVars, interpolVars>>

\* Promise.all rejects as soon as one promise has; the await throws out of
\* getCombinedWantedList, which has no try block
PromiseAllRejects ==
    /\ cpc = "awaiting"
    /\ "rejected" \in {fbiFetch, interpolFetch}
    /\ cpc' = "threw"
    /\ UNCHANGED <<pageSize, fbiAnswer, interpolAnswer, fbiFetch, interpolFetch, fbiItems,
                   interpolItems, combinedList, viewVars, ageVars, normVars, fetchVars,
                   detailVars, interpolVars>>

\* the two loops and `return combinedList.sort(...)`
CombineAndSort ==
    /\ cpc = "joined"
    /\ combinedList' = CombinedOf(fbiItems, interpolItems)
    /\ cpc' = "done"
    /\ UNCHANGED <<pageSize, fbiAnswer, interpolAnswer, fbiFetch, interpolFetch, fbiItems,
                   interpolItems, viewVars, ageVars, normVars, fetchVars, detailVars,
                   interpolVars>>

CombinedNext ==
    \/ StartBothFetches
    \/ FbiListResolves
    \/ FbiListRejects
    \/ InterpolListResolves
    \/ InterpolListRejects
    \/ PromiseAllFulfils
    \/ PromiseAllRejects
    \/ CombineAndSort

SpecCombined == CombinedInit /\ [][CombinedNext]_vars

(***************************************************************************)
(* AgeProgressionClient: the upload form of the age progression tool       *)
(*                                                                         *)
(* A photo is named by the file it was read from; the output of            *)
(* ageProgression is named by the photo it was generated from.             *)
(***************************************************************************)
MaxSelections == 3     \* most files chosen in one session

SmallFiles == {"a", "b"}          \* files of at most 4 MB
LargeFiles == {"big"}             \* files above 4 MB

AgeInit ==
    /\ photoDataUri = None
    /\ originalImageUrl = None
    /\ isLoading = FALSE
    /\ ageError = None
    /\ ageResult = None
    /\ reading = {}
    /\ inFlight = None
    /\ selections = 0
    /\ item = BaseItem /\ step = "idle" /\ classification = "UNSPECIFIED" /\ person = None
    /\ FetchIdle
    /\ DetailIdle
    /\ InterpolIdle
    /\ ViewIdle
    /\ CombinedIdle

\* handleFileChange, file.size > 4 * 1024 * 1024
ChooseLargeFile ==
    /\ selections < MaxSelections
    /\ \E file \in LargeFiles :
          /\ ageError' = Some("File size exceeds 4MB limit.")
          /\ photoDataUri' = None
          /\ originalImageUrl' = None
    /\ selections' = selections + 1
    /\ UNCHANGED <<isLoading, ageResult, reading, inFlight, viewVars, combinedVars,
                   normVars, fetchVars, detailVars, interpolVars>>

\* handleFileChange, otherwise: reader.readAsDataURL(file)
ChooseFile ==
    /\ selections < MaxSelections
    /\ \E file \in SmallFiles : reading' = reading \cup {file}
    /\ selections' = selections + 1
    /\ UNCHANGED <<photoDataUri, originalImageUrl, isLoading, ageError, ageResult,
                   inFlight, viewVars, combinedVars, normVars, fetchVars, detailVars,
                   interpolVars>>

\* reader.onloadend after a successful read
ReaderLoadEnd ==
    \E file \in reading :
        /\ reading' = reading \ {file}
        /\ photoDataUri' = Some(file)
        /\ originalImageUrl' = Some(file)
        /\ ageError' = None
        /\ ageResult' = None
        /\ UNCHANGED <<isLoading, inFlight, selections, viewVars, combinedVars, normVars,
                       fetchVars, detailVars, interpolVars>>

\* reader.onerror, then reader.onloadend with reader.result null
ReaderError ==
    \E file \in reading :
        /\ reading' = reading \ {file}
        /\ photoDataUri' = None
        /\ originalImageUrl' = Some(file)
        /\ ageError' = None
        /\ ageResult' = None
        /\ UNCHANGED <<isLoading, inFlight, selections, viewVars, combinedVars, normVars,
                       fetchVars, detailVars, interpolVars>>

\* handleSubmit; the submit button is disabled while isLoading || !photoDataUri
HandleSubmit ==
    /\ ~isLoading
    /\ photoDataUri # None
    /\ isLoading' = TRUE
    /\ ageError' = None
    /\ ageResult' = None
    /\ inFlight' = photoDataUri
    /\ UNCHANGED <<photoDataUri, originalImageUrl, reading, selections, viewVars,
                   combinedVars, normVars, fetchVars, detailVars, interpolVars>>

\* await ageProgression(input) fulfils: setResult(output); finally
AgeProgressionFulfils ==
    /\ inFlight # None
    /\ ageResult' = inFlight
    /\ isLoading' = FALSE
    /\ inFlight' = None
    /\ UNCHANGED <<photoDataUri, originalImageUrl, ageError, reading, selections,
                   viewVars, combinedVars, normVars, fetchVars, detailVars, interpolVars>>

\* await ageProgression(input) rejects: catch, finally
AgeProgressionRejects ==
    /\ inFlight # None
    /\ ageError' = Some("An unknown error occurred during age progression.")
    /\ isLoading' = FALSE
    /\ inFlight' = None
    /\ UNCHANGED <<photoDataUri, originalImageUrl, ageResult, reading, selections,
                   viewVars, combinedVars, normVars, fetchVars, detailVars, interpolVars>>

AgeNext ==
    \/ ChooseLargeFile
    \/ ChooseFile
    \/ ReaderLoadEnd
    \/ ReaderError
    \/ HandleSubmit
    \/ AgeProgressionFulfils
    \/ AgeProgressionRejects

SpecAge == AgeInit /\ [][AgeNext]_vars

(***************************************************************************)
(* Properties of normalizeFBIItem (checked under SpecNormalize)            *)
(***************************************************************************)
Returned == step = "done"

NonCriminal ==
    {"MISSING_PERSON", "UNIDENTIFIED_PERSON", "SEEKING_INFORMATION", "VICTIM_OF_CRIME",
     "CAPTURED", "UNSPECIFIED"}

\* C1: a record whose status is 'captured', compared without regard to case, is
\* returned with classification CAPTURED and charges null, whatever its other
\* fields hold.
C1_CapturedOverrides ==
    (Returned /\ ToLowerCase(Str(item.status)) = "captured")
        => (person[1].classification = "CAPTURED" /\ person[1].charges = None)

C1_Witness ==
    /\ Returned
    /\ item.status = Some("Captured")
    /\ item.poster_classification = Some("missing")
    /\ item.subjects = Some(<<"Cyber's Most Wanted">>)
    /\ item.title = Some("JANE DOE")
    /\ item.description = Some("Her body was found")
    /\ person[1].classification = "CAPTURED"

\* C2: the classification of every returned person is one of the nine values of
\* PersonClassification (so never null or undefined).
C2_ClassificationInEnum ==
    Returned => person[1].classification \in PersonClassification

C2_Witness ==
    /\ Returned
    /\ item.status = None /\ item.subjects = None /\ item.title = None
    /\ item.description = None /\ item.poster_classification = Some("Victim")
    /\ person[1].classification = "UNSPECIFIED"

AllTiersEmpty(raw) ==
    \/ raw.images = None
    \/ \A n \in 1..Len(raw.images[1]) :
          /\ raw.images[1][n].large = ""
          /\ raw.images[1][n].original = ""
          /\ raw.images[1][n].thumb = ""

\* C3: the images of every returned person are a non-empty list without a
\* repeated URL and thumbnailUrl is its first element; when no image entry has
\* any tier, images is the placeholder URL of the title alone, and thumbnailUrl
\* is that URL.
C3_ImagesNeverEmpty ==
    Returned =>
        LET p == person[1]
        IN /\ Len(p.images) > 0
           /\ \A m, n \in 1..Len(p.images) : p.images[m] = p.images[n] => m = n
           /\ p.thumbnailUrl = p.images[1]
           /\ AllTiersEmpty(item) =>
                 /\ p.images = <<PlaceholderUrl(item)>>
                 /\ p.thumbnailUrl = PlaceholderUrl(item)

C3_Witness ==
    /\ Returned
    /\ item.images = Some(<<[large |-> "", original |-> "", thumb |-> ""]>>)
    /\ item.title = Some("Jane Doe")
    /\ person[1].images = <<"https://placehold.co/300x400.png?text=Jane%20Doe">>
    /\ person[1].thumbnailUrl = "https://placehold.co/300x400.png?text=Jane%20Doe"

\* C4: a returned person whose classification is MISSING_PERSON,
\* UNIDENTIFIED_PERSON, SEEKING_INFORMATION, VICTIM_OF_CRIME, CAPTURED or
\* UNSPECIFIED has charges null.
C4_NonCriminalNoCharges ==
    (Returned /\ person[1].classification \in NonCriminal) => person[1].charges = None

C4_Witness ==
    /\ Returned
    /\ item.subjects = Some(<<"ViCAP Homicides and Sexual Assaults">>)
    /\ person[1].classification = "VICTIM_OF_CRIME"
    /\ person[1].charges = None

IdentityMarkers == {"unidentified", "jane doe", "john doe"}

FreeTextNamesNobody(raw) ==
    \E m \in IdentityMarkers :
        \/ Includes(ToLowerCase(Str(raw.description)), m)
        \/ Includes(ToLowerCase(Str(raw.details)), m)
        \/ Includes(ToLowerCase(Str(raw.remarks)), m)

TitleNamesNobody(raw) ==
    \E m \in IdentityMarkers : Includes(ToLowerCase(Str(raw.title)), m)

\* C5: a record whose description, details or remarks contain 'unidentified',
\* 'jane doe' or 'john doe' (in any case) is never returned as VICTIM_OF_CRIME.
C5_FreeTextIdentityNeverVictim ==
    (Returned /\ FreeTextNamesNobody(item))
        => person[1].classification # "VICTIM_OF_CRIME"

\* C6: for a record whose title contains 'unidentified', 'jane doe' or
\* 'john doe' (in any case), the classification is VICTIM_OF_CRIME after no
\* step of the cascade, and the returned classification is not VICTIM_OF_CRIME.
C6_TitleIdentityBeatsVictim ==
    TitleNamesNobody(item) =>
        /\ classification # "VICTIM_OF_CRIME"
        /\ Returned => person[1].classification # "VICTIM_OF_CRIME"

C6_Witness ==
    /\ Returned
    /\ item.title = Some("JANE DOE")
    /\ item.subjects = Some(<<"ViCAP Homicides and Sexual Assaults">>)
    /\ item.description = Some("Her body was found")
    /\ item.remarks = Some("Victim of homicide")
    /\ person[1].classification = "UNIDENTIFIED_PERSON"

\* the non-empty URLs of one tier of the record's image entries
TierUrls(raw, t) ==
    IF raw.images = None THEN {}
    ELSE {raw.images[1][n][t] : n \in 1..Len(raw.images[1])} \ {""}

Position(list, u) == CHOOSE k \in 1..Len(list) : list[k] = u

\* every URL of `first` stands in `list` before every URL of `later`
Precede(list, first, later) ==
    \A u \in first, v \in later :
        /\ \E k \in 1..Len(list) : list[k] = u
        /\ \E k \in 1..Len(list) : list[k] = v
        /\ Position(list, u) < Position(list, v)

\* C21: in the images of a returned person every non-empty original-tier URL
\* precedes every URL that occurs only in the large tier, and a URL of the
\* thumbnail tier is in images only when no image entry has an original or
\* large URL.
C21_OriginalTierFirst ==
    Returned =>
        LET large == TierUrls(item, "large")
            original == TierUrls(item, "original")
            thumb == TierUrls(item, "thumb")
            listed == {person[1].images[k] : k \in 1..Len(person[1].images)}
        IN /\ Precede(person[1].images, original, large \ original)
           /\ (listed \cap (thumb \ (large \cup original)) # {})
                 => (large \cup original = {})

NoFullSizeImage(raw) == TierUrls(raw, "large") \cup TierUrls(raw, "original") = {}

\* C22 (as the code has it): when no image entry has an original or large
\* URL, images is the first non-empty thumbnail of the entries, whichever
\* entry holds it, and the placeholder list only when every thumbnail is
\* empty.
C22_FirstNonEmptyThumbnail ==
    Returned /\ NoFullSizeImage(item) =>
        LET imgs == IF item.images = None THEN <<>> ELSE item.images[1]
            at == {n \in 1..Len(imgs) : imgs[n].thumb # ""}
        IN person[1].images =
             (IF at = {} THEN <<PlaceholderUrl(item)>>
              ELSE <<imgs[CHOOSE n \in at : \A m \in at : n <= m].thumb>>)

C22_Witness ==
    /\ Returned
    /\ item.images = Some(<<[large |-> "", original |-> "", thumb |-> ""],
                            [large |-> "", original |-> "", thumb |-> "u"]>>)
    /\ person[1].images = <<"u">>

\* C22 (as stated): when no image entry has an original or large URL and the
\* thumbnail of the first entry is empty, images is the placeholder list.
C22_FirstEntryThumbnailOnly ==
    (/\ Returned
     /\ NoFullSizeImage(item)
     /\ item.images # None
     /\ item.images[1] # <<>>
     /\ item.images[1][1].thumb = "")
        => person[1].images = <<PlaceholderUrl(item)>>

\* a height bound exists when it is a positive number of inches
HasBound(o) == o # None /\ o[1] > 0

\* h inches in metres, to the nearest hundredth: "d.dd"
NearestHundredth(h) ==
    LET c == CHOOSE n \in 0..400 : 100 * n - 50 <= 254 * h /\ 254 * h < 100 * n + 50
    IN IntToStr(c \div 100) \o "." \o IntToStr((c \div 10) % 10) \o IntToStr(c % 10)

Imperial(h) == IntToStr(h \div 12) \o "'" \o IntToStr(h % 12) \o "\""

\* C12: equal positive bounds h give F'I" (Mm) with F = h div 12, I = h mod 12
\* and M the metres to two decimals (70 gives 5'10" (1.78m)); a maximum without
\* a minimum gives Mm (max) (72 gives 1.83m (max)); no bound at all gives null.
C12_HeightFormats ==
    Returned =>
        LET lo == item.height_min
            hi == item.height_max
            h == person[1].height
        IN /\ (HasBound(lo) /\ HasBound(hi) /\ lo = hi) =>
                 h = Some(Imperial(hi[1]) \o " (" \o NearestHundredth(hi[1]) \o "m)")
           /\ (lo = Some(70) /\ hi = Some(70)) => h = Some("5'10\" (1.78m)")
           /\ (~HasBound(lo) /\ HasBound(hi)) =>
                 h = Some(NearestHundredth(hi[1]) \o "m (max)")
           /\ (~HasBound(lo) /\ hi = Some(72)) => h = Some("1.83m (max)")
           /\ (~HasBound(lo) /\ ~HasBound(hi)) => h = None

C12_Witness ==
    /\ Returned
    /\ item.height_min = Some(70) /\ item.height_max = Some(70)
    /\ person[1].height = Some("5'10\" (1.78m)")

\* C13 (as the code has it): a minimum h without a maximum gives
\* At least F'I" (Mm), the imperial part included (60 gives At least 5'0" (1.52m)).
C13_LoneMinimumHasImperial ==
    (Returned /\ HasBound(item.height_min) /\ ~HasBound(item.height_max)) =>
        /\ person[1].height =
              Some("At least " \o Imperial(item.height_min[1]) \o " ("
                     \o NearestHundredth(item.height_min[1]) \o "m)")
        /\ item.height_min = Some(60) => person[1].height = Some("At least 5'0\" (1.52m)")

C13_Witness ==
    /\ Returned
    /\ item.height_min = Some(60) /\ item.height_max = None
    /\ person[1].height = Some("At least 5'0\" (1.52m)")

\* C13 (as stated): a minimum h without a maximum gives At least Mm, the
\* metric value alone (60 gives At least 1.52m).
C13_LoneMinimumMetricOnly ==
    (Returned /\ HasBound(item.height_min) /\ ~HasBound(item.height_max)) =>
        person[1].height = Some("At least " \o NearestHundredth(item.height_min[1]) \o "m")

\* C14 (as the code has it): two bounds that differ give the maximum alone,
\* as Mm (max).
C14_UnequalBoundsGiveMaximum ==
    (Returned /\ HasBound(item.height_min) /\ HasBound(item.height_max)
       /\ item.height_min # item.height_max) =>
        person[1].height = Some(NearestHundredth(item.height_max[1]) \o "m (max)")

C14_Witness ==
    /\ Returned
    /\ item.height_min = Some(60) /\ item.height_max = Some(70)
    /\ person[1].height = Some("1.78m (max)")

\* C14 (as stated): two bounds that differ give null.
C14_UnequalBoundsGiveNull ==
    (Returned /\ HasBound(item.height_min) /\ HasBound(item.height_max)
       /\ item.height_min # item.height_max) =>
        person[1].height = None

Generic == {"WANTED_CRIMINAL", "UNSPECIFIED"}

\* the record is not captured and carries no cyber / children marker, so that
\* the cascade of steps 3 to 9 decides
CascadeDecides(raw) ==
    /\ ToLowerCase(Str(raw.status)) # "captured"
    /\ \A m \in {"cyber's most wanted", "crimes against children"} :
          /\ ~Includes(ToLowerCase(Str(raw.title)), m)
          /\ raw.subjects # None =>
                \A n \in 1..Len(raw.subjects[1]) : ToLowerCase(raw.subjects[1][n]) # m

NoFreeText(raw) == raw.description = None /\ raw.details = None /\ raw.remarks = None

\* C16 (as the code has it): apart from the captured override and the deep
\* text scan, no stage changes a classification that is not generic; the deep
\* text scan runs whatever the classification is and leaves it alone when the
\* record has no free text.  So a record the cascade decides, with
\* poster_classification 'missing' and no free text, ends as MISSING_PERSON.
C16_OnlyDeepTextOverrides ==
    /\ [][(classification \notin Generic /\ (step # "deep" \/ NoFreeText(item)))
             => classification' = classification]_vars
    /\ [](Returned => person[1].classification = classification)
    /\ []((Returned /\ CascadeDecides(item) /\ NoFreeText(item)
             /\ ToLowerCase(Str(item.poster_classification)) = "missing")
            => person[1].classification = "MISSING_PERSON")

C16_Witness ==
    /\ Returned
    /\ item.status = None
    /\ item.poster_classification = Some("missing")
    /\ item.subjects = Some(<<"Seeking Information">>)
    /\ item.title = Some("Homicide Victim")
    /\ NoFreeText(item)
    /\ person[1].classification = "MISSING_PERSON"

\* C16 (as stated): apart from the captured override, no stage changes a
\* classification that is not generic; a record the cascade decides, with
\* poster_classification 'missing', ends as MISSING_PERSON, and a
\* classification of UNIDENTIFIED_PERSON stays, whatever the free text holds.
C16_NoStageOverridesSpecific ==
    /\ [][classification \notin Generic => classification' = classification]_vars
    /\ []((Returned /\ CascadeDecides(item)
             /\ ToLowerCase(Str(item.poster_classification)) = "missing")
            => person[1].classification = "MISSING_PERSON")

\* C17: a classification that is not generic (neither WANTED_CRIMINAL nor
\* UNSPECIFIED) is not generic after any later step, nor in the result.
C17_NeverBackToGeneric ==
    /\ [][classification \notin Generic => classification' \notin Generic]_vars
    /\ []((Returned /\ person[1].classification \in Generic) => classification \in Generic)

C17_Witness ==
    /\ Returned
    /\ item.status = None
    /\ item.poster_classification = Some("missing")
    /\ item.description = Some("Her body was found")
    /\ item.title = Some("John Smith")
    /\ person[1].classification = "VICTIM_OF_CRIME"

HasSubjectTags(raw) == raw.subjects # None /\ Len(raw.subjects[1]) > 0

\* the class codes of step 3 select the victim branch
VictimCode(raw) ==
    LET p == ToLowerCase(Str(raw.poster_classification))
        q == ToLowerCase(Str(raw.person_classification))
    IN /\ raw.poster_classification = None \/ p \notin {"missing", "information"}
       /\ raw.person_classification = None \/ q \notin {"missing person", "seeking information"}
       /\ \/ raw.poster_classification # None /\ p = "victim"
          \/ raw.person_classification # None /\ q = "victim"

NothingToShow(raw) ==
    ~Truthy(raw.title) /\ ~Truthy(raw.description) /\ ~Truthy(raw.details)

\* C18 (as the code has it): a record with at least one subject tag never
\* ends as UNSPECIFIED; the final classification is UNSPECIFIED only for a
\* record without subject tags that either carries the victim class code or
\* has an empty subject array and no title, description or details.
C18_UnspecifiedOnlyWithoutSubjects ==
    Returned /\ person[1].classification = "UNSPECIFIED" =>
        /\ ~HasSubjectTags(item)
        /\ \/ VictimCode(item)
           \/ item.subjects = Some(<<>>) /\ NothingToShow(item)

C18_Witness ==
    /\ Returned
    /\ item.title = Some("John Smith")
    /\ item.poster_classification = Some("Victim")
    /\ ~HasSubjectTags(item)
    /\ person[1].classification = "UNSPECIFIED"

\* C18 (as stated): the final classification is UNSPECIFIED only for a record
\* with no title, no description and no details.
C18_UnspecifiedOnlyWhenEmpty ==
    Returned /\ person[1].classification = "UNSPECIFIED" => NothingToShow(item)

OffenceWords == {"murder", "fugitive", "warrant", "unlawful flight"}

\* some tag looks like a date or a place and no tag holds an offence word
ChargesUnclear(tags) ==
    /\ \E n \in 1..Len(tags) : LooksLikeDateOrPlace(tags[n])
    /\ \A n \in 1..Len(tags) : \A w \in OffenceWords : ~Includes(ToLowerCase(tags[n]), w)

RECURSIVE WithoutDatesAndPlaces(_)
WithoutDatesAndPlaces(tags) ==
    IF tags = <<>> THEN <<>>
    ELSE IF LooksLikeDateOrPlace(Head(tags)) THEN WithoutDatesAndPlaces(Tail(tags))
    ELSE <<Head(tags)>> \o WithoutDatesAndPlaces(Tail(tags))

FirstPresent(opts, dflt) ==
    LET at == {k \in 1..Len(opts) : opts[k] # None /\ opts[k][1] # ""}
    IN IF at = {} THEN dflt
       ELSE opts[CHOOSE k \in at : \A j \in at : k <= j][1]

ClassDefault(c) ==
    CASE c = "MISSING_PERSON" -> "Missing Person Alert"
      [] c = "UNIDENTIFIED_PERSON" -> "Unidentified Person Case"
      [] c = "VICTIM_OF_CRIME" -> "Victim of Crime Case"
      [] c = "SEEKING_INFORMATION" -> "Seeking Public Assistance"
      [] c = "UNSPECIFIED" -> "General Alert"
      [] c = "CAPTURED" -> "Captured - Individual formerly sought"

\* C20 (as the code has it): for a record returned as MISSING_PERSON,
\* UNIDENTIFIED_PERSON or VICTIM_OF_CRIME, caseTypeDescription is the first
\* non-empty of title, description, details, remarks; for SEEKING_INFORMATION
\* and UNSPECIFIED the first non-empty of title, description, details; in both
\* cases the default string of the classification when all are empty.  For
\* CAPTURED it is 'Captured - ' followed by the title, or by 'Individual
\* formerly sought' when the title is empty.
C20_TitleLeadsTheFallbackChain ==
    Returned /\ person[1].classification \in NonCriminal =>
        LET c == person[1].classification
        IN person[1].caseTypeDescription =
             (IF c = "CAPTURED"
              THEN "Captured - " \o FirstPresent(<<item.title>>, "Individual formerly sought")
              ELSE IF c \in {"SEEKING_INFORMATION", "UNSPECIFIED"}
              THEN FirstPresent(<<item.title, item.description, item.details>>,
                                ClassDefault(c))
              ELSE FirstPresent(<<item.title, item.description, item.details,
                                  item.remarks>>, ClassDefault(c)))

C20_Witness ==
    /\ Returned
    /\ person[1].classification = "VICTIM_OF_CRIME"
    /\ item.title = Some("")
    /\ item.description = Some("Her body was found")
    /\ item.remarks = Some("Jane Doe")
    /\ person[1].caseTypeDescription = "Her body was found"

\* C20 (as stated): for a record returned with a non-criminal classification,
\* caseTypeDescription is the first non-empty of description, details,
\* remarks, and the default string of the classification when all three are
\* empty; the title takes no part.
C20_ChainWithoutTitle ==
    Returned /\ person[1].classification \in NonCriminal =>
        person[1].caseTypeDescription =
            FirstPresent(<<item.description, item.details, item.remarks>>,
                         ClassDefault(person[1].classification))

\* the source flags the record as a victim
VictimFlag(raw) ==
    \/ ToLowerCase(Str(raw.poster_classification)) = "victim"
    \/ ToLowerCase(Str(raw.person_classification)) = "victim"

RECURSIVE PersonsOfPages(_)
PersonsOfPages(p) ==
    IF p = 0 THEN <<>>
    ELSE PersonsOfPages(p - 1) \o normalizedPageItems(PageItems(source, p, itemsPerPage))

\* request number failAt has been sent and fails as `kind`
RequestFailed(kind) ==
    source.failAt > 0 /\ source.failKind = kind /\ Len(requests) >= source.failAt

\* C7: once a page request has failed by a network error or a non-success
\* status, the call has not thrown, the failed request is the last one sent,
\* and what the call returns is what the pages before it gave (nothing, when
\* the first request failed).
C7_FailureEndsTheCall ==
    (RequestFailed("network") \/ RequestFailed("status")) =>
        /\ pc # "threw"
        /\ Len(requests) = source.failAt
        /\ pc = "done" => result = Some(uniquePersons(PersonsOfPages(source.failAt - 1)))

C7_Witness ==
    /\ pc = "done"
    /\ RequestFailed("network")
    /\ source.failAt = 2
    /\ requests = <<1, 2>>
    /\ Len(result[1]) = 1
    /\ result[1][1].id = "fbi-a1"

\* C8: once a page request has been answered with a success status and a body
\* that is not JSON, the call has not thrown, and what it returns is what the
\* pages before it gave.
C8_BadJsonRecovered ==
    RequestFailed("syntax") =>
        /\ pc # "threw"
        /\ pc = "done" => result = Some(uniquePersons(PersonsOfPages(source.failAt - 1)))

Ended == pc \in {"done", "threw"}

\* the statements one call can still execute, at most
PcRank ==
    [loop |-> 6, delay |-> 5, request |-> 4, fetching |-> 3, page |-> 2, finish |-> 1,
     done |-> 0, threw |-> 0, idle |-> 0]
StepsLeft == 7 * (MAX_API_CALLS - i) + PcRank[pc]

\* some statement of the call can run; the loop body after the await runs
\* whenever control is at it, whichever branch of its tests it takes
CanStep ==
    \/ pc = "page"
    \/ ENABLED (LoopTest \/ DelayElapsed \/ SendRequest \/ FetchNetworkError
                \/ FetchHttpError \/ FetchBadJson \/ FetchJsonOk \/ ReturnPersons)

RECURSIVE ServedItems(_)
ServedItems(p) ==
    IF p = 0 THEN <<>>
    ELSE ServedItems(p - 1) \o PageItems(source, p, itemsPerPage)

\* C10: no person of the returned list comes from a record without a uid,
\* and every record of the pages read that has a uid (and a name) is in the
\* list.
C10_RecordsWithoutUidDropped ==
    (pc = "done" /\ source.failAt = 0) =>
        LET served == ServedItems(Len(requests))
            persons == result[1]
        IN /\ \A n \in 1..Len(persons) : Truthy(persons[n].rawId)
           /\ \A k \in 1..Len(served) :
                 (Truthy(served[k].uid) /\ Trim(Str(served[k].title)) # "")
                     => \E n \in 1..Len(persons) : persons[n].rawId = served[k].uid

\* C27: the returned list holds no two persons with the same id and no person
\* whose name is absent, empty or blank; every named person the pages read
\* gave is in it under its id, exactly once.
C27_UniqueNamedPersons ==
    pc = "done" =>
        LET persons == result[1]
            read == PersonsOfPages(Len(requests) - (IF source.failAt > 0 THEN 1 ELSE 0))
        IN /\ \A m, n \in 1..Len(persons) : persons[m].id = persons[n].id => m = n
           /\ \A n \in 1..Len(persons) :
                 /\ persons[n].name # None
                 /\ Trim(persons[n].name[1]) # ""
           /\ \A k \in 1..Len(read) :
                 Cardinality({n \in 1..Len(persons) : persons[n].id = read[k].id}) = 1

C27_Witness ==
    /\ pc = "done"
    /\ Len(requests) >= 2
    /\ Len(result[1]) = 1
    /\ Len(allNormalizedPersons) >= 2
    /\ \E k \in 1..Len(source.catalogue) : source.catalogue[k].title = Some("  ")

\* C24: the pages requested are 1, 2, 3, ... in this order, one request at a
\* time: a request is sent only from the request statement, which control
\* reaches straight from the loop test before the first request and only
\* through an elapsed delay after that; the delay itself sends nothing.
C24_SequentialDelayedRequests ==
    /\ [](\A n \in 1..Len(requests) : requests[n] = n)
    /\ [][requests' # requests =>
             (pc = "request" /\ pc' = "fetching" /\ Len(requests') = Len(requests) + 1)]_vars
    /\ [][(pc # "request" /\ pc' = "request") =>
             \/ pc = "loop" /\ requests = <<>>
             \/ pc = "delay" /\ requests # <<>>]_vars
    /\ [][pc = "delay" => (pc' = "request" /\ requests' = requests)]_vars
    /\ [](pc = "delay" => requests # <<>>)

C24_Witness ==
    /\ requests = <<1, 2, 3>>
    /\ pc = "done"

(***************************************************************************)
(* Properties of getFBIPersonDetails (checked under SpecDetails)           *)
(***************************************************************************)
ScanPcs == {"loop", "delay", "request", "fetching", "page", "finish", "done", "threw"}

DetailRank ==
    [d_start |-> 15, d_fetching |-> 14, d_got |-> 13, d_fallback |-> 12, loop |-> 10,
     delay |-> 9, request |-> 8, fetching |-> 7, page |-> 6, finish |-> 3, done |-> 2,
     threw |-> 2, d_done |-> 0, d_threw |-> 0]
DetailStepsLeft ==
    (IF pc \in {"d_start", "d_fetching", "d_got", "d_fallback"} \cup ScanPcs
     THEN 7 * (MAX_API_CALLS - i) ELSE 0) + DetailRank[pc]

\* some statement of the lookup can run (the test of the direct answer and the
\* loop body after the await run whenever control is at them)
DetailCanStep ==
    \/ pc \in {"d_got", "page"}
    \/ ENABLED (DirectRequest \/ DirectNetworkError \/ DirectHttpError \/ DirectBadJson
                \/ DirectJsonOk \/ StartListScan \/ LoopTest
                \/ DelayElapsed \/ SendRequest \/ FetchNetworkError \/ FetchHttpError
                \/ FetchBadJson \/ FetchJsonOk \/ ReturnPersons \/ FindInList
                \/ CatchListError)

\* the id is found by neither path: the object endpoint gave no record with a
\* uid, and the scan threw or returned no person with that rawId
FoundNowhere ==
    /\ ~(directAnswer.kind = "json" /\ DirectHit(directAnswer.body))
    /\ result # None => \A k \in 1..Len(result[1]) : result[1][k].rawId # Some(lookupId)

C28_ReturnedPersonHasRequestedId ==
    (pc = "d_done" /\ details # None) => details[1].rawId = Some(lookupId)

\* what holds of both paths: the person has a rawId, and the one the list scan
\* found has the requested id
ScanPathFindsRequestedId ==
    (pc = "d_done" /\ details # None) =>
        /\ Truthy(details[1].rawId)
        /\ requests # <<>> => details[1].rawId = Some(lookupId)

(***************************************************************************)
(* Properties of normalizeInterpolItem (checked under SpecInterpol)        *)
(***************************************************************************)
NoInterpolImage ==
    /\ detailedImagesFromApi = None \/ detailedImagesFromApi = Some(<<>>)
    /\ notice.thumbnail = None

IsStoredImage(p, u) ==
    \/ p.images # None /\ \E k \in 1..Len(p.images[1]) : p.images[1][k] = u
    \/ p.thumbnailUrl = Some(u)

RealUrl(u) == u # "" /\ ~Includes(u, "placehold.co")

FirstImage(p) == IF p.images = None \/ p.images[1] = <<>> THEN "" ELSE p.images[1][1]

Contributed(answer) == IF answer.body = None THEN <<>> ELSE answer.body[1]

\* C25: a fetch of one source is never pending while the other has not been
\* issued; records are normalised only when both fetches have completed; the
\* call never throws, and its result is the sorted list of the records the two
\* answers hold, a failed answer counting as an empty list, whichever fetch
\* completed first.
C25_ConcurrentFetchesJoined ==
    /\ ("pending" \in {fbiFetch, interpolFetch}) => ("none" \notin {fbiFetch, interpolFetch})
    /\ cpc \in {"joined", "done"} => (fbiFetch = "resolved" /\ interpolFetch = "resolved")
    /\ cpc # "threw"
    /\ cpc = "done" =>
          combinedList = CombinedOf(Contributed(fbiAnswer[1]),
                                    IF interpolPageSize(pageSize) > 0
                                    THEN Contributed(interpolAnswer[1]) ELSE <<>>)

(***************************************************************************)
(* Properties of WantedCard (checked under SpecCard)                       *)
(***************************************************************************)
CriminalClassifications ==
    {"WANTED_CRIMINAL", "CYBER_MOST_WANTED", "CRIMES_AGAINST_CHILDREN"}

\* C29: the card of a person shows the badge 'FBI MOST WANTED' only when the
\* classification of the person is WANTED_CRIMINAL, CYBER_MOST_WANTED or
\* CRIMES_AGAINST_CHILDREN.
C29_MostWantedBadgeOnlyForCriminals ==
    badge = Some("FBI MOST WANTED") => shown[1].classification \in CriminalClassifications

(***************************************************************************)
(* Properties of AgeProgressionClient (checked under SpecAge)              *)
(***************************************************************************)
\* C30: a result on display was generated from the photo now held as the
\* uploaded photo.
C30_ResultMatchesUploadedPhoto ==
    ageResult # None => ageResult = photoDataUri

=============================================================================
